---- MODULE Spec2Model ----
(***************************************************************************)
(* Verification model of ContextFinderFIM:                                 *)
(*   - FunctionBodyRemover.remove_function_body and the base class's       *)
(*     apply_transformation (benchmark_tool/src/transformers),             *)
(*   - CodeContextCollector (src/code_context_collector.py),               *)
(*   - CodeProcessor.process_file (benchmark_tool/src/code_processor.py),  *)
(*   - FunctionCallRemover and ImportOptimizer                             *)
(*     (benchmark_tool/src/transformers).                                  *)
(* Source text is a sequence of one-character strings; line numbers are    *)
(* 0-indexed as in the code unless a name says otherwise.                  *)
(***************************************************************************)
EXTENDS Integers, Sequences, FiniteSets, TLC

VARIABLES
    bpc,            \* body removal: "input" | "removed" | "applied"
    original_code,  \* body removal: the source text (sequence of characters)
    node,           \* body removal: the FunctionDef node ast.parse gives for it
    config,         \* body removal: the transformer's configuration
    result          \* body removal: [code, metadata] returned by the call

bodyVars == <<bpc, original_code, node, config, result>>

VARIABLES
    project,          \* collector: the files on disk: their import statements and used names
    cpc,              \* collector: "idle" | "collecting" | "collected"
    stack,            \* collector: the active _process_file calls, innermost last
    processed_files,  \* collector: self.processed_files
    file_cache,       \* collector: the keys of self.file_cache
    ast_cache,        \* collector: the keys of self.ast_cache
    code_elements,    \* collector: self.code_elements, in insertion order
    imports,          \* collector: self.imports, in insertion order
    reads,            \* collector: how often each file was read, parsed and extracted
    context           \* collector: the last format_context result

collectorVars == <<project, cpc, stack, processed_files, file_cache, ast_cache,
                   code_elements, imports, reads, context>>

VARIABLES
    kpc,          \* call removal: "input" | "transformed" | "applied"
    call_tree,    \* call removal: the body of the parsed module
    call_config,  \* call removal: the transformer's configuration
    draws,        \* call removal: the outcomes of the coming should_transform() draws
    call_result   \* call removal: [code, tree, metadata] returned by the call

callVars == <<kpc, call_tree, call_config, draws, call_result>>

VARIABLES
    ppc,                      \* process_file: "start" | "loop" | "returned"
    file,                     \* process_file: the file being processed
    transformers,             \* process_file: the classes of self.transformers
    max_transformations,      \* process_file: self.max_transformations
    transformations_applied,  \* process_file: the local counter of successes
    examples,                 \* process_file: the local list of examples
    attempts                  \* process_file: iterations that applied a transformation

processorVars == <<ppc, file, transformers, max_transformations, transformations_applied,
                   examples, attempts>>

VARIABLES
    earlier_runs,  \* repeated runs: the entries of the collect_context calls already finished
    first_run      \* repeated runs: the collector's state after its first collect_context

rerunVars == <<earlier_runs, first_run>>

VARIABLES
    rpc,             \* import resolution: "input" | "resolved" | "extracted"
    existing,        \* import resolution: the files that exist
    imported_name,   \* import resolution: the dotted name, split at the dots
    importer,        \* import resolution: the file that holds the import
    resolved,        \* import resolution: what _resolve_import returned
    extracted        \* import resolution: what _extract_imports returned

resolveVars == <<rpc, existing, imported_name, importer, resolved, extracted>>

VARIABLES
    qpc,            \* can_transform: "input" | "answered"
    candidate,      \* can_transform: the node asked about
    can_config,     \* can_transform: the transformer's configuration
    can_result      \* can_transform: the value returned

canVars == <<qpc, candidate, can_config, can_result>>

VARIABLES
    spc,                  \* select_transformation: "config" | "built" | "selected"
    tree,                 \* select_transformation: the parsed file
    transformers_config,  \* CodeProcessor.__init__: config['transformers']
    built,                \* CodeProcessor.__init__: the classes of self.transformers
    selected              \* select_transformation: the class returned, or "None"

selectVars == <<spc, tree, transformers_config, built, selected>>

VARIABLES
    ipc,            \* ImportOptimizer: "input" | "removed" | "combined"
    import_tree,    \* ImportOptimizer: the body of the module given
    names_used,     \* ImportOptimizer: the used-name set given
    import_result   \* ImportOptimizer: the tree and the list returned

importVars == <<ipc, import_tree, names_used, import_result>>

VARIABLES
    dpc,           \* process_directory: "walking" | "saved" | "raised"
    listing,       \* process_directory: the files os.walk yields, in order
    walked,        \* process_directory: how many of them the loop has passed
    dir_transformers,       \* process_directory: the classes of self.transformers
    all_examples,  \* process_directory: the local list all_examples
    dir_examples,  \* process_directory: the local variable examples, unbound at first
    saved          \* process_directory: what save_examples wrote

batchVars == <<dpc, listing, walked, dir_transformers, all_examples, dir_examples, saved>>

VARIABLES
    tpc,         \* dataset: the last call: "new" | "added" | "saved" | "loaded" | "not found"
    dataset,     \* dataset: the BenchmarkDataset at hand: its examples and metadata
    disk,        \* dataset: the dataset directory: examples/<id>.json and metadata.json
    last_saved,  \* dataset: self.examples at the last save_to_disk
    into_empty,  \* dataset: whether the last save_to_disk found the directory empty
    loads        \* dataset: the load_from_disk calls made

datasetVars == <<tpc, dataset, disk, last_saved, into_empty, loads>>

vars == <<bodyVars, collectorVars, callVars, processorVars, rerunVars, resolveVars, canVars, selectVars,
          importVars, batchVars, datasetVars>>

(***************************************************************************)
(* Bounds of the generated source texts.                                   *)
(***************************************************************************)
MaxPre == 1        \* top-level lines before the function
MaxPost == 1       \* top-level lines after the function
MaxStmts == 2      \* body statements after the docstring
MaxIndent == 2     \* width of the body indentation
MaxDocLines == 2   \* lines of the docstring
MaxMinBody == 2    \* largest configured min_body_lines

None == -1

(***************************************************************************)
(* str helpers                                                             *)
(***************************************************************************)
Whitespace == {" ", "\n"}

\* not line.strip()
IsBlank(line) == \A i \in 1..Len(line) : line[i] \in Whitespace

\* len(line) - len(line.lstrip())
LeadingWhitespace(line) ==
    IF IsBlank(line) THEN Len(line)
    ELSE CHOOSE k \in 0..(Len(line) - 1) :
            /\ line[k + 1] \notin Whitespace
            /\ \A j \in 1..k : line[j] \in Whitespace

\* ch in line
Contains(line, ch) == \E i \in 1..Len(line) : line[i] = ch

\* ' ' * n
Spaces(n) == [i \in 1..n |-> " "]

RECURSIVE Join(_)
\* ''.join(lines)
Join(ls) == IF ls = <<>> THEN <<>> ELSE Head(ls) \o Join(Tail(ls))

RECURSIVE SplitFrom(_, _, _)
SplitFrom(s, i, cur) ==
    IF i > Len(s) THEN (IF cur = <<>> THEN <<>> ELSE <<cur>>)
    ELSE IF s[i] = "\n" THEN <<Append(cur, s[i])>> \o SplitFrom(s, i + 1, <<>>)
    ELSE SplitFrom(s, i + 1, Append(cur, s[i]))

\* s.splitlines(True): the lines of s, each with its line ending
SplitLines(s) == SplitFrom(s, 1, <<>>)

\* lines[a:b] with 0-indexed, end-exclusive Python slice semantics
Slice(ls, a, b) ==
    LET lo == IF a < 0 THEN 0 ELSE IF a > Len(ls) THEN Len(ls) ELSE a
        hi == IF b < 0 THEN 0 ELSE IF b > Len(ls) THEN Len(ls) ELSE b
    IN  IF hi <= lo THEN <<>> ELSE [i \in 1..(hi - lo) |-> ls[lo + i]]

RECURSIVE SumLen(_, _)
\* sum(len(lines[i]) for i in range(n) if i < len(lines))
SumLen(ls, n) ==
    IF n <= 0 THEN 0
    ELSE (IF n <= Len(ls) THEN Len(ls[n]) ELSE 0) + SumLen(ls, n - 1)

Max(a, b) == IF a >= b THEN a ELSE b

(***************************************************************************)
(* Source texts.  A text is generated from a descriptor d; the node is the *)
(* FunctionDef that ast.parse returns for that text (lineno, end_lineno    *)
(* and the body statements with their own lineno / end_lineno, 1-indexed). *)
(*   d  def f          x  a top-level statement       s  a body statement  *)
(*   q  a line of the docstring literal               a, i  a parameter    *)
(*   >[ ... ]  a subscripted return annotation                             *)
(***************************************************************************)
HeaderKinds == {"one", "multi", "annot", "multiannot", "inline"}

\* the lines of the def statement's header
HeaderLines(kind) ==
    CASE kind = "one"    -> << <<"d", "(", ")", ":", "\n">> >>
      [] kind = "multi"  -> << <<"d", "(", "\n">>,
                               <<" ", "a", ":", "i", "\n">>,
                               <<")", ":", "\n">> >>
      [] kind = "annot"  -> << <<"d", "(", "a", ":", "i", ")", ">", "[", "\n">>,
                               <<" ", "i", "]", ":", "\n">> >>
      [] kind = "multiannot" -> << <<"d", "(", "\n">>,
                                   <<" ", "a", ":", "i", ")", ">", "[", "\n">>,
                                   <<" ", "i", "]", ":", "\n">> >>
      [] kind = "inline" -> << <<"d", "(", ")", ":", "s", "\n">> >>

BlankLine(k) == IF k = 1 THEN <<"\n">> ELSE <<" ", "\n">>

Descriptors ==
    { d \in [pre : 0..MaxPre, header : HeaderKinds, blank1 : 0..2,
             doc : 0..MaxDocLines, blank2 : 0..1, stmts : 0..MaxStmts,
             indent : 1..MaxIndent, post : 0..MaxPost] :
        IF d.header = "inline"
        THEN d.blank1 = 0 /\ d.doc = 0 /\ d.blank2 = 0 /\ d.stmts = 1 /\ d.indent = 1
        ELSE /\ d.doc + d.stmts > 0
             /\ (d.doc = 0 \/ d.stmts = 0) => d.blank2 = 0 }

GenLines(d) ==
    [i \in 1..d.pre |-> <<"x", "\n">>]
    \o HeaderLines(d.header)
    \o (IF d.blank1 = 0 THEN <<>> ELSE <<BlankLine(d.blank1)>>)
    \o [i \in 1..d.doc |-> Spaces(d.indent) \o <<"q", "\n">>]
    \o (IF d.blank2 = 0 THEN <<>> ELSE <<BlankLine(d.blank2)>>)
    \o (IF d.header = "inline" THEN <<>>
        ELSE [i \in 1..d.stmts |-> Spaces(d.indent) \o <<"s", "\n">>])
    \o [i \in 1..d.post |-> <<"x", "\n">>]

GenCode(d) == Join(GenLines(d))

GenNode(d) ==
    LET lineno == d.pre + 1
        hdr == Len(HeaderLines(d.header))
        docFirst == d.pre + hdr + (IF d.blank1 = 0 THEN 0 ELSE 1) + 1
        stmtFirst == docFirst + d.doc + d.blank2
        docBody == IF d.doc = 0 THEN <<>>
                   ELSE << [kind |-> "Str", lineno |-> docFirst,
                            end_lineno |-> docFirst + d.doc - 1] >>
        stmtBody == IF d.header = "inline"
                    THEN << [kind |-> "Stmt", lineno |-> lineno, end_lineno |-> lineno] >>
                    ELSE [i \in 1..d.stmts |->
                            [kind |-> "Stmt", lineno |-> stmtFirst + i - 1,
                             end_lineno |-> stmtFirst + i - 1]]
        body == docBody \o stmtBody
    IN  [kind |-> "FunctionDef", name |-> <<"f">>, lineno |-> lineno,
         end_lineno |-> body[Len(body)].end_lineno, body |-> body]

(***************************************************************************)
(* FunctionBodyRemover                                                     *)
(***************************************************************************)
\* name.startswith('__') and name.endswith('__'), for a name given as its characters
IsDunder(name) ==
    /\ Len(name) >= 2
    /\ name[1] = "_" /\ name[2] = "_"
    /\ name[Len(name) - 1] = "_" /\ name[Len(name)] = "_"

\* a test that accepts every node with enough body statements
can_transform_AnyNode(n, cfg) == Len(n.body) >= cfg.min_body_lines

\* can_transform(node)
can_transform(n, cfg) ==
    IF n.kind \notin {"FunctionDef", "AsyncFunctionDef"} THEN FALSE
    ELSE IF IsDunder(n.name) THEN FALSE
    ELSE Len(n.body) >= cfg.min_body_lines

RECURSIVE ScanChars(_, _, _)
\* the inner loop over the characters of one line: [paren_count, in_signature]
ScanChars(line, i, st) ==
    IF i > Len(line) THEN st
    ELSE IF line[i] = "("
         THEN ScanChars(line, i + 1,
                        [paren_count |-> st.paren_count + 1, in_signature |-> TRUE])
    ELSE IF line[i] = ")"
         THEN ScanChars(line, i + 1,
                        [paren_count |-> st.paren_count - 1,
                         in_signature |-> IF st.paren_count - 1 = 0 /\ st.in_signature
                                          THEN FALSE ELSE st.in_signature])
    ELSE ScanChars(line, i + 1, st)

RECURSIVE FindHeaderEnd(_, _, _)
\* the loop for i in range(func_start, len(lines)); -1 when it finds no line
FindHeaderEnd(lines, i, st) ==
    IF i >= Len(lines) THEN -1
    ELSE LET st2 == ScanChars(lines[i + 1], 1, st)
         IN  IF Contains(lines[i + 1], ":") /\ ~st2.in_signature /\ st2.paren_count = 0
             THEN i
             ELSE FindHeaderEnd(lines, i + 1, st2)

RECURSIVE SkipBlank(_, _, _)
\* while i < limit and not lines[i].strip(): i += 1
SkipBlank(lines, i, limit) ==
    IF i < limit /\ IsBlank(lines[i + 1]) THEN SkipBlank(lines, i + 1, limit) ELSE i

RECURSIVE FindDedent(_, _, _)
\* the fallback scan for the end of the body when the node has no end_lineno
FindDedent(lines, i, indentation) ==
    IF i >= Len(lines) THEN None
    ELSE IF ~IsBlank(lines[i + 1]) /\ LeadingWhitespace(lines[i + 1]) <= indentation
         THEN i
         ELSE FindDedent(lines, i + 1, indentation)

Failure(code, reason) == [code |-> code, metadata |-> [success |-> FALSE, reason |-> reason]]

\* the slice of the docstring lines that the replacement keeps
DocstringLines(lines, n, actual_body_start) ==
    Slice(lines, Max(n.body[1].lineno - 1, actual_body_start), n.body[1].end_lineno)

\* the replacement of the body: blank lines, docstring, newline, placeholder
ReplacementLines(lines, n, cfg, body_start, actual_body_start, indentation, has_docstring) ==
    LET kept == Slice(lines, body_start, actual_body_start)
                \o (IF has_docstring THEN DocstringLines(lines, n, actual_body_start)
                    ELSE <<>>)
    IN  IF cfg.add_pass
        THEN kept
             \o (IF kept # <<>> /\ ~IsBlank(kept[Len(kept)]) THEN << <<"\n">> >> ELSE <<>>)
             \o << Spaces(indentation) \o <<"p", "a", "s", "s", "\n">> >>
        ELSE kept

\* the line the cursor is put on
CursorLine(lines, n, actual_body_start, body_end, has_docstring) ==
    IF has_docstring
    THEN SkipBlank(lines, (n.body[1].end_lineno - 1) + 1, body_end)
    ELSE actual_body_start

\* a splice that resumes one line too late
Splice_SkipsLine(lines, body_start, replacement_lines, body_end) ==
    Join(Slice(lines, 0, body_start) \o replacement_lines
         \o Slice(lines, body_end + 1, Len(lines)))

\* transformed_code = ''.join(lines[:body_start] + replacement_lines + lines[body_end:])
Splice(lines, body_start, replacement_lines, body_end) ==
    Join(Slice(lines, 0, body_start) \o replacement_lines
         \o Slice(lines, body_end, Len(lines)))

\* metadata["removed_body"]
\* a body text that leaves out the first line after the header
BodyText_DropsFirstLine(lines, body_start, body_end) ==
    Join(Slice(lines, body_start + 1, body_end))

\* ''.join(lines[body_start:body_end])
BodyText(lines, body_start, body_end) == Join(Slice(lines, body_start, body_end))

remove_function_body(n, code, cfg) ==
    LET func_start == n.lineno - 1
        func_end == n.end_lineno
        lines == SplitLines(code)
        header_end == FindHeaderEnd(lines, func_start,
                                    [paren_count |-> 0, in_signature |-> FALSE])
        actual_body_start == SkipBlank(lines, header_end + 1, Len(lines))
    IN  IF header_end = -1
        THEN Failure(code, "Could not locate end of function header")
        ELSE IF actual_body_start >= Len(lines)
        THEN Failure(code, "No function body found")
        ELSE
        LET indentation == LeadingWhitespace(lines[actual_body_start + 1])
            scanned == IF func_end = None
                       THEN FindDedent(lines, actual_body_start + 1, indentation)
                       ELSE func_end
            body_end == IF scanned = None THEN Len(lines) ELSE scanned
            body_start == header_end + 1
            has_docstring == /\ cfg.keep_docstring
                             /\ Len(n.body) > 0
                             /\ n.body[1].kind = "Str"
            replacement_lines ==
                ReplacementLines(lines, n, cfg, body_start, actual_body_start,
                                 indentation, has_docstring)
            cursor_line == CursorLine(lines, n, actual_body_start, body_end, has_docstring)
        IN  [code |-> Splice(lines, body_start, replacement_lines, body_end),
             metadata |->
               [success |-> TRUE,
                function_name |-> n.name,
                line_number |-> n.lineno,
                original_body_size |-> Len(n.body),
                removed_body |-> BodyText(lines, body_start, body_end),
                fim_cursor_line |-> cursor_line + 1,
                fim_cursor_column |-> indentation + 1,
                fim_cursor_position |-> SumLen(lines, cursor_line) + indentation,
                original_body_start_line |-> body_start + 1,
                original_body_end_line |-> body_end + 1,
                actual_code_start_line |-> actual_body_start + 1,
                transformed_body_start_line |-> body_start + 1,
                transformed_body_end_line |-> body_start + Len(replacement_lines) + 1,
                type |-> "function_body_removal"]]

\* CodeTransformer.apply_transformation for a FunctionBodyRemover: transform
\* chooses among the functions that can_transform accepts
apply_transformation(n, code, cfg) ==
    IF ~can_transform(n, cfg)
    THEN Failure(code, "No suitable functions found")
    ELSE remove_function_body(n, code, cfg)

(***************************************************************************)
(* Body removal as a state machine: an input is drawn, then one of the two *)
(* entry points is called on it.                                           *)
(***************************************************************************)
Configs == [keep_docstring : BOOLEAN, add_pass : BOOLEAN, min_body_lines : 1..MaxMinBody]

NoResult == [code |-> <<>>, metadata |-> [success |-> FALSE, reason |-> "not called"]]

BodyStart ==
    /\ bpc = "input"
    /\ \E d \in Descriptors :
          /\ original_code = GenCode(d)
          /\ node = GenNode(d)
    /\ config \in Configs
    /\ result = NoResult

RemoveFunctionBody ==
    /\ bpc = "input"
    /\ result' = remove_function_body(node, original_code, config)
    /\ bpc' = "removed"
    /\ UNCHANGED <<original_code, node, config>>
    /\ UNCHANGED <<collectorVars, callVars, processorVars, rerunVars, resolveVars, canVars, selectVars, importVars, batchVars, datasetVars>>

ApplyTransformation ==
    /\ bpc = "input"
    /\ result' = apply_transformation(node, original_code, config)
    /\ bpc' = "applied"
    /\ UNCHANGED <<original_code, node, config>>
    /\ UNCHANGED <<collectorVars, callVars, processorVars, rerunVars, resolveVars, canVars, selectVars, importVars, batchVars, datasetVars>>

BodyNext == RemoveFunctionBody \/ ApplyTransformation

(***************************************************************************)
(* can_transform asked about nodes of every kind, name and body size       *)
(***************************************************************************)
NodeKinds == {"FunctionDef", "AsyncFunctionDef", "ClassDef", "Module"}

\* f, _f, __f, f__, __f__, __ and ____
NodeNames ==
    {<<"f">>, <<"_", "f">>, <<"_", "_", "f">>, <<"f", "_", "_">>,
     <<"_", "_", "f", "_", "_">>, <<"_", "_">>, <<"_", "_", "_", "_">>}

\* a body of n one-line statements after the header line
StatementBody(n) ==
    [i \in 1..n |-> [kind |-> "Stmt", lineno |-> i + 1, end_lineno |-> i + 1]]

CandidateNodes ==
    {[kind |-> k, name |-> nm, lineno |-> 1,
      end_lineno |-> Max(1, n + 1), body |-> StatementBody(n)] :
        k \in NodeKinds, nm \in NodeNames, n \in 0..(MaxMinBody + 1)}

CanStart ==
    /\ qpc = "input"
    /\ candidate \in CandidateNodes
    /\ can_config \in Configs
    /\ can_result = FALSE

\* FunctionBodyRemover.can_transform(node)
CanTransform ==
    /\ qpc = "input"
    /\ can_result' = can_transform(candidate, can_config)
    /\ qpc' = "answered"
    /\ UNCHANGED <<candidate, can_config>>
    /\ UNCHANGED <<bodyVars, collectorVars, callVars, processorVars, rerunVars, resolveVars, selectVars, importVars, batchVars, datasetVars>>

CanNext == CanTransform

(***************************************************************************)
(* Reparsing a text: the statement grammar over the characters above, as   *)
(* ast.parse accepts or rejects it.  A header runs until the bracket depth *)
(* is back to 0; a header ending in ':' needs an indented block.           *)
(***************************************************************************)
RECURSIVE DepthAfter(_, _, _)
DepthAfter(line, i, depth) ==
    IF i > Len(line) THEN depth
    ELSE IF line[i] \in {"(", "["} THEN DepthAfter(line, i + 1, depth + 1)
    ELSE IF line[i] \in {")", "]"} THEN DepthAfter(line, i + 1, depth - 1)
    ELSE DepthAfter(line, i + 1, depth)

FirstChar(line) == line[LeadingWhitespace(line) + 1]

EndsWithColon(line) == Len(line) >= 2 /\ line[Len(line) - 1] = ":"

HasInlineBody(line) ==
    Len(line) >= 3 /\ line[Len(line) - 2] = ":" /\ line[Len(line) - 1] = "s"

RECURSIVE ParseFrom(_, _, _, _)
\* mode: "top", "header" (inside an open bracket of a def header),
\*       "needblock" (after a header's colon), "block" (inside a body of indent k)
ParseFrom(ls, i, mode, k) ==
    IF i > Len(ls) THEN mode \in {"top", "block"}
    ELSE LET line == ls[i] IN
    IF mode = "header"
    THEN LET depth == DepthAfter(line, 1, k) IN
         IF depth > 0 THEN ParseFrom(ls, i + 1, "header", depth)
         ELSE IF depth < 0 THEN FALSE
         ELSE IF EndsWithColon(line) THEN ParseFrom(ls, i + 1, "needblock", 0)
         ELSE IF HasInlineBody(line) THEN ParseFrom(ls, i + 1, "top", 0)
         ELSE FALSE
    ELSE IF IsBlank(line) THEN ParseFrom(ls, i + 1, mode, k)
    ELSE LET ind == LeadingWhitespace(line)
             ch == FirstChar(line) IN
    IF mode = "needblock"
    THEN ind > 0 /\ ch \in {"q", "s", "p"} /\ ParseFrom(ls, i + 1, "block", ind)
    ELSE IF mode = "block" /\ ind > 0
    THEN ind = k /\ ch \in {"q", "s", "p"} /\ ParseFrom(ls, i + 1, "block", k)
    ELSE \* a top-level line
         /\ ind = 0
         /\ IF ch = "d" THEN ParseFrom(ls, i, "header", 0)
            ELSE ch \in {"x", "p", "s", "q"} /\ ParseFrom(ls, i + 1, "top", 0)

\* ast.parse(text) succeeds
Reparses(text) == ParseFrom(SplitLines(text), 1, "top", 0)

(***************************************************************************)
(* Claims about body removal                                               *)
(***************************************************************************)
md == result.metadata

BodyCalled == bpc \in {"removed", "applied"}

BodySucceeded == BodyCalled /\ md.success

OrigLines == SplitLines(original_code)

NewLines == SplitLines(result.code)

\* C1: after a successful remove_function_body the transformed text equals the
\* original on every line before body_start and on every line from body_end
\* onward (the lines after the splice keep their content and order).
C1_FrameOutsideBody ==
    BodySucceeded =>
        LET body_start == md.original_body_start_line - 1
            body_end == md.original_body_end_line - 1
            shift == Len(NewLines) - Len(OrigLines)
        IN  /\ \A i \in 1..body_start :
                  i <= Len(NewLines) /\ NewLines[i] = OrigLines[i]
            /\ \A j \in (body_end + 1)..Len(OrigLines) :
                  /\ j + shift \in 1..Len(NewLines)
                  /\ j + shift > body_start
                  /\ NewLines[j + shift] = OrigLines[j]

\* a successful removal of a non-empty body with text before and after it
C1_Witness ==
    /\ bpc = "removed"
    /\ md.success
    /\ md.original_body_start_line > 1
    /\ md.original_body_end_line > md.original_body_start_line
    /\ md.original_body_end_line - 1 < Len(OrigLines)
    /\ result.code # original_code

\* the 1-indexed line of the 0-indexed offset p in text
LineOfOffset(text, p) ==
    1 + Cardinality({i \in 1..p : i <= Len(text) /\ text[i] = "\n"})

\* the 1-indexed column of the 0-indexed offset p in text
ColumnOfOffset(text, p) ==
    LET nls == {i \in 1..p : i <= Len(text) /\ text[i] = "\n"}
        lineStart == IF nls = {} THEN 0 ELSE CHOOSE i \in nls : \A j \in nls : j <= i
    IN  p - lineStart + 1

RetainsDocstring == config.keep_docstring /\ node.body[1].kind = "Str"

\* C2: after a successful removal the character at fim_cursor_position in the
\* transformed text is the first character of the placeholder (with a retained
\* docstring and no placeholder: the cursor is on the line that follows the
\* docstring), and fim_cursor_line / fim_cursor_column are the line and
\* column of that offset in the transformed text.
C2_CursorAtPlaceholder ==
    (BodySucceeded /\ (config.add_pass \/ RetainsDocstring)) =>
        LET p == md.fim_cursor_position IN
        /\ config.add_pass => (p < Len(result.code) /\ result.code[p + 1] = "p")
        /\ ~config.add_pass =>
              LineOfOffset(result.code, p) = md.transformed_body_end_line
        /\ md.fim_cursor_line = LineOfOffset(result.code, p)
        /\ md.fim_cursor_column = ColumnOfOffset(result.code, p)

\* C3: a body removal that reports success yields a text that reparses.
C3_SuccessReparses == BodySucceeded => Reparses(result.code)

\* the original text from the first statement after the docstring to body_end
StatementsAfterDocstring(skipBlank) ==
    LET afterDoc == node.body[1].end_lineno
        body_end == md.original_body_end_line - 1
        from == IF skipBlank THEN SkipBlank(OrigLines, afterDoc, body_end) ELSE afterDoc
    IN  Join(Slice(OrigLines, from, body_end))

\* C4: with keep_docstring on and a function that starts with a docstring,
\* removed_body is the original text of the statements after the docstring
\* (with or without the blank lines between the docstring and them).
C4_RemovedBodyExcludesDocstring ==
    (BodySucceeded /\ RetainsDocstring) =>
        \/ md.removed_body = StatementsAfterDocstring(TRUE)
        \/ md.removed_body = StatementsAfterDocstring(FALSE)

(***************************************************************************)
(* CodeContextCollector: paths                                             *)
(* A path is [parts, ext]: root/pkg/b.py is parts <<"root","pkg","b">>,    *)
(* ext ".py"; a directory has ext "".  The file system root has no parts.  *)
(***************************************************************************)
Dir(parts) == [parts |-> parts, ext |-> ""]

\* path.parent
Parent(p) ==
    Dir(IF p.parts = <<>> THEN <<>> ELSE SubSeq(p.parts, 1, Len(p.parts) - 1))

\* dir / part / part / ...
Descend(p, parts) == Dir(p.parts \o parts)

\* dir / f"{name}.py"
PyFile(p, name) == [parts |-> Append(p.parts, name), ext |-> ".py"]

\* path.with_suffix('.py')
WithSuffixPy(p) == [parts |-> p.parts, ext |-> ".py"]

\* path.name of a directory, path.stem of a file
LastPart(p) == p.parts[Len(p.parts)]

\* _get_module_name(module_path)
_get_module_name(p) ==
    IF LastPart(p) = "__init__" THEN LastPart(Parent(p)) ELSE LastPart(p)

\* sys.stdlib_module_names and the external_libs denylist
std_libs == {"os", "sys", "json"}

external_libs == {"numpy", "os", "sys", "json"}

RECURSIVE PackageScan(_, _, _, _)
\* the walk from the importing file's directory up to the file system root:
\* the package roots found and the candidates of step 2
PackageScan(fs, dir, module_parts, acc) ==
    IF dir.parts = <<>> THEN acc
    ELSE LET isPkg == PyFile(dir, "__init__") \in fs
             target == Descend(dir, Tail(module_parts))
             named == isPkg /\ LastPart(dir) = module_parts[1]
         IN  PackageScan(fs, Parent(dir), module_parts,
                [roots |-> acc.roots \o (IF isPkg THEN <<dir>> ELSE <<>>),
                 paths |-> acc.paths
                           \o (IF named THEN <<WithSuffixPy(target)>> ELSE <<>>)
                           \o (IF named /\ Len(module_parts) > 1
                               THEN <<PyFile(target, "__init__")>> ELSE <<>>)])

RECURSIVE RootCandidates(_, _)
\* step 6: the dotted path next to every package root found
RootCandidates(roots, module_parts) ==
    IF roots = <<>> THEN <<>>
    ELSE LET module_path == Descend(Parent(Head(roots)), module_parts)
         IN  <<WithSuffixPy(module_path), PyFile(module_path, "__init__")>>
             \o RootCandidates(Tail(roots), module_parts)

\* possible_paths with the project-root candidates tried before all others
PossiblePaths_RootFirst(fs, project_root, module_parts, importing_file) ==
    LET parent_dir == Parent(importing_file)
        n == Len(module_parts)
        scan == PackageScan(fs, parent_dir, module_parts, [roots |-> <<>>, paths |-> <<>>])
    IN  <<PyFile(Descend(project_root, SubSeq(module_parts, 1, n - 1)), module_parts[n])>>
        \o <<PyFile(Descend(project_root, module_parts), "__init__")>>
        \o (IF n = 1 THEN <<PyFile(parent_dir, module_parts[1])>> ELSE <<>>)
        \o scan.paths
        \o <<PyFile(Descend(parent_dir, SubSeq(module_parts, 1, n - 1)), module_parts[n])>>
        \o RootCandidates(scan.roots, module_parts)

\* possible_paths in the order the code appends them
PossiblePaths(fs, project_root, module_parts, importing_file) ==
    LET parent_dir == Parent(importing_file)
        n == Len(module_parts)
        scan == PackageScan(fs, parent_dir, module_parts, [roots |-> <<>>, paths |-> <<>>])
    IN  (IF n = 1 THEN <<PyFile(parent_dir, module_parts[1])>> ELSE <<>>)
        \o scan.paths
        \o <<PyFile(Descend(parent_dir, SubSeq(module_parts, 1, n - 1)), module_parts[n])>>
        \o <<PyFile(Descend(project_root, SubSeq(module_parts, 1, n - 1)), module_parts[n])>>
        \o <<PyFile(Descend(project_root, module_parts), "__init__")>>
        \o RootCandidates(scan.roots, module_parts)

NoPath == [parts |-> <<>>, ext |-> "none"]

RECURSIVE FirstExisting(_, _)
\* for path in unique_paths: if path.exists(): return path
FirstExisting(fs, paths) ==
    IF paths = <<>> THEN NoPath
    ELSE IF Head(paths) \in fs THEN Head(paths)
    ELSE FirstExisting(fs, Tail(paths))

RECURSIVE UniquePaths(_, _)
\* unique_paths: possible_paths without repetitions, first occurrence kept
UniquePaths(paths, seen) ==
    IF paths = <<>> THEN <<>>
    ELSE IF Head(paths) \in seen THEN UniquePaths(Tail(paths), seen)
    ELSE <<Head(paths)>> \o UniquePaths(Tail(paths), seen \cup {Head(paths)})

\* a resolution without the test for external libraries
_resolve_import_NoDenylist(fs, project_root, module_parts, importing_file) ==
    FirstExisting(fs,
        UniquePaths(PossiblePaths(fs, project_root, module_parts, importing_file), {}))

\* _resolve_import(import_name, importing_file); NoPath stands for None
_resolve_import(fs, project_root, module_parts, importing_file) ==
    IF module_parts[1] \in std_libs \/ module_parts[1] \in external_libs
    THEN NoPath
    ELSE FirstExisting(fs,
            UniquePaths(PossiblePaths(fs, project_root, module_parts, importing_file), {}))

(***************************************************************************)
(* CodeContextCollector: the project on disk                               *)
(***************************************************************************)
MaxImports == 2    \* import statements in the whole project
MaxDepth == 4      \* nesting of _process_file calls that the model follows

project_root == Dir(<<"root">>)

FileA == PyFile(project_root, "a")
FileB == PyFile(project_root, "b")
FilePkgInit == PyFile(Dir(<<"root", "pkg">>), "__init__")
FilePkgB == PyFile(Dir(<<"root", "pkg">>), "b")

\* the files that exist
FileSystem == {FileA, FileB, FilePkgInit, FilePkgB}

\* the files that hold import statements
SourceFiles == {FileA, FileB, FilePkgB}

\* the names of the top-level functions of a file, in source order
TopLevelNames(p) ==
    IF p = FileA THEN <<"f", "g">>
    ELSE IF p = FileB THEN <<"f", "g">>
    ELSE IF p = FilePkgB THEN <<"g", "h">>
    ELSE <<>>

max_file_size == 1000000

\* file_path.stat().st_size
FileSize(p) == 100

ImportedModules == {<<"a">>, <<"b">>, <<"pkg", "b">>}

\* import M  /  from M import f  /  from M import g
ImportStatements ==
    [type : {"import"}, module : ImportedModules, names : {<<>>}]
    \cup [type : {"from"}, module : ImportedModules, names : {<<"f">>, <<"g">>}]

\* the names a file reads: <<"f">> for a Name, <<"b", "g">> for the attribute b.g
UsedNameSets == { {}, {<<"f">>}, {<<"b">>, <<"b", "g">>} }

RECURSIVE ImportsOf(_, _)
\* the import statements of file p among the placed statements, in order
ImportsOf(placed, p) ==
    IF placed = <<>> THEN <<>>
    ELSE (IF Head(placed).file = p THEN <<Head(placed).stmt>> ELSE <<>>)
         \o ImportsOf(Tail(placed), p)

Placements ==
    UNION { [1..n -> [file : SourceFiles, stmt : ImportStatements]] : n \in 0..MaxImports }

Projects ==
    { [entry |-> FileA,
       imports |-> [p \in SourceFiles |-> ImportsOf(placed, p)],
       used |-> [p \in SourceFiles |-> IF p = FileA THEN u ELSE {}]] :
         placed \in Placements, u \in UsedNameSets }

(***************************************************************************)
(* dicts keep their insertion order: a dict is a sequence of [key, val]    *)
(***************************************************************************)
Keys(d) == {d[i].key : i \in 1..Len(d)}

Lookup(d, k) == d[CHOOSE i \in 1..Len(d) : d[i].key = k].val

Put(d, k, v) ==
    IF k \in Keys(d)
    THEN [i \in 1..Len(d) |-> IF d[i].key = k THEN [key |-> k, val |-> v] ELSE d[i]]
    ELSE Append(d, [key |-> k, val |-> v])

(***************************************************************************)
(* CodeContextCollector: collection                                        *)
(***************************************************************************)
RECURSIVE ExtractImportsOn(_, _, _)
\* _extract_imports with fs as the files that exist: the ImportInfo of every
\* import statement that resolves, in ast.walk order
ExtractImportsOn(fs, stmts, file_path) ==
    IF stmts = <<>> THEN <<>>
    ELSE LET module_path == _resolve_import(fs, project_root,
                                            Head(stmts).module, file_path)
         IN  (IF module_path = NoPath THEN <<>>
              ELSE << [module_path |-> module_path,
                       import_type |-> Head(stmts).type,
                       names |-> Head(stmts).names,
                       used_names |-> {}] >>)
             \o ExtractImportsOn(fs, Tail(stmts), file_path)

\* _extract_imports(module_ast, file_path) in the project on disk
_extract_imports(stmts, file_path) == ExtractImportsOn(FileSystem, stmts, file_path)

RECURSIVE AddElements(_, _, _)
AddElements(elements, names, file_path) ==
    IF names = <<>> THEN elements
    ELSE AddElements(Put(elements, Head(names),
                         [name |-> Head(names), element_type |-> "function",
                          source |-> file_path]),
                     Tail(names), file_path)

\* _extract_code_elements(file_path, module_ast)
_extract_code_elements(ce, file_path) ==
    LET module_name == _get_module_name(file_path)
        ce1 == IF module_name \in Keys(ce) THEN ce ELSE Put(ce, module_name, <<>>)
    IN  Put(ce1, module_name,
            AddElements(Lookup(ce1, module_name), TopLevelNames(file_path), file_path))

RECURSIVE RecordFirst(_, _)
\* for imp in imports: if module_name not in self.imports: self.imports[module_name] = imp
RecordFirst(im, infos) ==
    IF infos = <<>> THEN im
    ELSE LET module_name == _get_module_name(Head(infos).module_path)
         IN  RecordFirst(IF module_name \in Keys(im) THEN im
                         ELSE Put(im, module_name, Head(infos)),
                         Tail(infos))

\* a test that never recognises a processed file
AlreadyProcessed_Never(file_path, pf) == FALSE

\* the processed-files test at the top of _process_file
AlreadyProcessed(file_path, pf) == file_path \in pf

\* _process_file(file_path) up to its loop of recursive calls, entered with the
\* state (pf, fc, ac, ce, im, rd) and the calls st below it
ProcessFile(file_path, st, pf, fc, ac, ce, im, rd) ==
    IF AlreadyProcessed(file_path, pf)
    THEN /\ stack' = st
         /\ processed_files' = pf
         /\ file_cache' = fc
         /\ ast_cache' = ac
         /\ code_elements' = ce
         /\ imports' = im
         /\ reads' = rd
    ELSE IF \/ file_path \notin FileSystem
            \/ file_path.ext # ".py"
            \/ FileSize(file_path) > max_file_size
    THEN /\ stack' = st
         /\ processed_files' = pf \cup {file_path}
         /\ file_cache' = fc
         /\ ast_cache' = ac
         /\ code_elements' = ce
         /\ imports' = im
         /\ reads' = rd
    ELSE LET infos == _extract_imports(project.imports[file_path], file_path)
         IN  /\ stack' = Append(st, [file |-> file_path, imports |-> infos, next |-> 1])
             /\ processed_files' = pf \cup {file_path}
             /\ file_cache' = fc \cup {file_path}
             /\ ast_cache' = ac \cup {file_path}
             /\ code_elements' = _extract_code_elements(ce, file_path)
             /\ imports' = RecordFirst(im, infos)
             /\ reads' = [rd EXCEPT ![file_path] = @ + 1]

NoReads == [p \in FileSystem |-> 0]

\* collect_context(file_path): the five clear() calls, then _process_file(abs_path)
CollectContext ==
    /\ cpc = "idle"
    /\ cpc' = "collecting"
    /\ ProcessFile(project.entry, <<>>, {}, {}, {}, <<>>, <<>>, NoReads)
    /\ UNCHANGED <<project, context>>
    /\ UNCHANGED <<bodyVars, callVars, processorVars, rerunVars, resolveVars, canVars, selectVars, importVars, batchVars, datasetVars>>

Top == stack[Len(stack)]

\* for imp in imports: self._process_file(imp.module_path)
RecurseImport ==
    /\ cpc = "collecting"
    /\ stack # <<>>
    /\ Top.next <= Len(Top.imports)
    /\ Len(stack) < MaxDepth
    /\ ProcessFile(Top.imports[Top.next].module_path,
                   [stack EXCEPT ![Len(stack)].next = @ + 1],
                   processed_files, file_cache, ast_cache, code_elements, imports, reads)
    /\ UNCHANGED <<project, cpc, context>>
    /\ UNCHANGED <<bodyVars, callVars, processorVars, rerunVars, resolveVars, canVars, selectVars, importVars, batchVars, datasetVars>>

\* the end of one _process_file call
ReturnFromFile ==
    /\ cpc = "collecting"
    /\ stack # <<>>
    /\ Top.next > Len(Top.imports)
    /\ stack' = SubSeq(stack, 1, Len(stack) - 1)
    /\ UNCHANGED <<project, cpc, processed_files, file_cache, ast_cache,
                   code_elements, imports, reads, context>>
    /\ UNCHANGED <<bodyVars, callVars, processorVars, rerunVars, resolveVars, canVars, selectVars, importVars, batchVars, datasetVars>>

(***************************************************************************)
(* CodeContextCollector: analysis, filter and rendering                    *)
(***************************************************************************)
\* a marking that takes every name the file reads as a used name of the record
MarkedBy_EveryReadName(info, module_name, names) == {n[1] : n \in {m \in names : Len(m) = 1}}

\* the names one file's used set marks for one import record
MarkedBy(info, module_name, names) ==
    IF info.import_type = "from"
    THEN {info.names[i] : i \in {j \in 1..Len(info.names) : <<info.names[j]>> \in names}}
    ELSE LET module_usages == {n \in names : Len(n) = 2 /\ n[1] = module_name}
         IN  IF module_usages # {} \/ <<module_name>> \in names
             THEN {n[2] : n \in module_usages}
             ELSE {}

\* visitor.used of an analysed file
UsedNames(file_path) ==
    IF file_path \in DOMAIN project.used THEN project.used[file_path] ELSE {}

\* _analyze_usage: every import record gets the names marked by any cached file
_analyze_usage(im, pf, ac) ==
    [i \in 1..Len(im) |->
        [key |-> im[i].key,
         val |-> [im[i].val EXCEPT !.used_names =
                    @ \cup UNION {MarkedBy(im[i].val, im[i].key, UsedNames(p)) :
                                      p \in pf \cap ac}]]]

\* the end of collect_context: _analyze_usage(abs_path), return self.code_elements
AnalyzeUsage ==
    /\ cpc = "collecting"
    /\ stack = <<>>
    /\ imports' = _analyze_usage(imports, processed_files, ast_cache)
    /\ cpc' = "collected"
    /\ UNCHANGED <<project, stack, processed_files, file_cache, ast_cache,
                   code_elements, reads, context>>
    /\ UNCHANGED <<bodyVars, callVars, processorVars, rerunVars, resolveVars, canVars, selectVars, importVars, batchVars, datasetVars>>

RECURSIVE SelectSeq2(_, _, _)
\* the elements kept for a from-import: explicitly imported or marked as used
SelectSeq2(elements, names, used_names) ==
    IF elements = <<>> THEN <<>>
    ELSE (IF \/ \E i \in 1..Len(names) : names[i] = Head(elements).key
             \/ Head(elements).key \in used_names
          THEN <<Head(elements)>> ELSE <<>>)
         \o SelectSeq2(Tail(elements), names, used_names)

\* the branch of _filter_used_elements that decides what one module keeps
FilterModule(module_name, elements, im) ==
    IF module_name \notin Keys(im) THEN elements
    ELSE IF Lookup(im, module_name).import_type = "import" THEN elements
    ELSE SelectSeq2(elements, Lookup(im, module_name).names,
                    Lookup(im, module_name).used_names)

\* _filter_used_elements()
_filter_used_elements(ce, im) ==
    [i \in 1..Len(ce) |-> [key |-> ce[i].key, val |-> FilterModule(ce[i].key, ce[i].val, im)]]

\* the test that leaves a module out of the rendering
SkipsModule(module_name, add_current_file, im) ==
    ~add_current_file /\ module_name \notin Keys(im)

RECURSIVE RenderGroups(_, _, _)
RenderGroups(filtered, add_current_file, im) ==
    IF filtered = <<>> THEN <<>>
    ELSE LET module_name == Head(filtered).key
         IN  (IF SkipsModule(module_name, add_current_file, im) THEN <<>>
              ELSE << [header |-> IF module_name \in Keys(im)
                                  THEN <<"# File:", Lookup(im, module_name).module_path>>
                                  ELSE <<"# Module:", module_name>>,
                       elements |-> [i \in 1..Len(Head(filtered).val) |->
                                        Head(filtered).val[i].val]] >>)
             \o RenderGroups(Tail(filtered), add_current_file, im)

\* format_context(add_current_file): the groups in order, each with its header
\* line and the source of its elements
format_context(add_current_file, ce, im) ==
    RenderGroups(_filter_used_elements(ce, im), add_current_file, im)

NoContext == [called |-> FALSE, add_current_file |-> FALSE, groups |-> <<>>]

FormatContext ==
    /\ cpc = "collected"
    /\ \E add_current_file \in BOOLEAN :
          context' = [called |-> TRUE, add_current_file |-> add_current_file,
                      groups |-> format_context(add_current_file, code_elements, imports)]
    /\ UNCHANGED <<project, cpc, stack, processed_files, file_cache, ast_cache,
                   code_elements, imports, reads>>
    /\ UNCHANGED <<bodyVars, callVars, processorVars, rerunVars, resolveVars, canVars, selectVars, importVars, batchVars, datasetVars>>

EmptyProject ==
    [entry |-> FileA,
     imports |-> [p \in SourceFiles |-> <<>>],
     used |-> [p \in SourceFiles |-> {}]]

CollectorStart ==
    /\ project \in Projects
    /\ cpc = "idle"
    /\ stack = <<>>
    /\ processed_files = {}
    /\ file_cache = {}
    /\ ast_cache = {}
    /\ code_elements = <<>>
    /\ imports = <<>>
    /\ reads = NoReads
    /\ context = NoContext

CollectorNext ==
    \/ CollectContext
    \/ RecurseImport
    \/ ReturnFromFile
    \/ AnalyzeUsage
    \/ FormatContext

(***************************************************************************)
(* CodeContextCollector: collect_context called again on a used instance   *)
(***************************************************************************)
MaxReruns == 2   \* collect_context calls after the first one

\* the entries of the later calls
RerunEntries == {FileA, FileB}

\* a container that keeps its content instead of being cleared
Cleared_Keeps(container, empty) == container

\* container.clear()
Cleared(container, empty) == empty

\* the instance state that collect_context leaves, and what format_context
\* makes of it
Snapshot ==
    [entry |-> project.entry,
     processed_files |-> processed_files,
     file_cache |-> file_cache,
     ast_cache |-> ast_cache,
     imports |-> imports,
     code_elements |-> code_elements,
     formatted |-> [add_current_file \in BOOLEAN |->
                        format_context(add_current_file, code_elements, imports)]]

NoSnapshot == [entry |-> NoPath]

\* collect_context(file_path) on an instance that has finished a run: the five
\* clear() calls, then _process_file(abs_path)
CollectContextAgain ==
    /\ cpc = "collected"
    /\ Len(earlier_runs) < MaxReruns
    /\ \E e \in RerunEntries :
          /\ project' = [project EXCEPT !.entry = e]
          /\ ProcessFile(e, <<>>,
                         Cleared(processed_files, {}),
                         Cleared(file_cache, {}),
                         Cleared(ast_cache, {}),
                         Cleared(code_elements, <<>>),
                         Cleared(imports, <<>>),
                         NoReads)
    /\ cpc' = "collecting"
    /\ earlier_runs' = Append(earlier_runs, project.entry)
    /\ first_run' = IF earlier_runs = <<>> THEN Snapshot ELSE first_run
    /\ UNCHANGED context
    /\ UNCHANGED <<bodyVars, callVars, processorVars, resolveVars, canVars, selectVars, importVars, batchVars, datasetVars>>

RerunStart ==
    /\ earlier_runs = <<>>
    /\ first_run = NoSnapshot

\* a sequence of collect_context calls on one instance
RerunNext ==
    \/ CollectContext
    \/ RecurseImport
    \/ ReturnFromFile
    \/ AnalyzeUsage
    \/ CollectContextAgain

(***************************************************************************)
(* _resolve_import and _extract_imports over the files that may exist      *)
(* around three importing files: root/a.py, root/pkg/m.py (a package under *)
(* the project root) and root/sub/pkg/m.py (a package below it).           *)
(***************************************************************************)
ImportingFiles ==
    {FileA, PyFile(Dir(<<"root", "pkg">>), "m"), PyFile(Dir(<<"root", "sub", "pkg">>), "m")}

\* the files whose existence varies
OptionalFiles ==
    {PyFile(Dir(<<"root">>), "b"), PyFile(Dir(<<"root", "b">>), "__init__"),
     PyFile(Dir(<<"root">>), "pkg"), PyFile(Dir(<<"root", "pkg">>), "__init__"),
     PyFile(Dir(<<"root", "pkg">>), "b"), PyFile(Dir(<<"root", "pkg", "pkg">>), "b"),
     PyFile(Dir(<<"root", "sub">>), "b"), PyFile(Dir(<<"root", "sub">>), "pkg"),
     PyFile(Dir(<<"root", "sub", "pkg">>), "__init__"),
     PyFile(Dir(<<"root", "sub", "pkg">>), "b"),
     PyFile(Dir(<<"root">>), "json"), PyFile(Dir(<<"root">>), "numpy")}

ImportNames == {<<"b">>, <<"pkg">>, <<"pkg", "b">>, <<"json">>, <<"numpy">>}

ResolveStart ==
    /\ rpc = "input"
    /\ importer \in ImportingFiles
    /\ \E fs \in SUBSET OptionalFiles : existing = fs \cup {importer}
    /\ imported_name \in ImportNames
    /\ resolved = NoPath
    /\ extracted = <<>>

\* _resolve_import(import_name, importing_file)
ResolveImport ==
    /\ rpc = "input"
    /\ resolved' = _resolve_import(existing, project_root, imported_name, importer)
    /\ rpc' = "resolved"
    /\ UNCHANGED <<existing, imported_name, importer, extracted>>
    /\ UNCHANGED <<bodyVars, collectorVars, callVars, processorVars, rerunVars, canVars, selectVars, importVars, batchVars, datasetVars>>

\* _extract_imports on a module that holds the statement `import <name>`
ExtractImports ==
    /\ rpc = "input"
    /\ extracted' = ExtractImportsOn(existing,
                        <<[type |-> "import", module |-> imported_name, names |-> <<>>]>>,
                        importer)
    /\ rpc' = "extracted"
    /\ UNCHANGED <<existing, imported_name, importer, resolved>>
    /\ UNCHANGED <<bodyVars, collectorVars, callVars, processorVars, rerunVars, canVars, selectVars, importVars, batchVars, datasetVars>>

ResolveNext == ResolveImport \/ ExtractImports

(***************************************************************************)
(* FunctionCallRemover                                                     *)
(* Nodes: [kind "Name", id], [kind "Constant", value],                     *)
(* [kind "Attribute", value, attr], [kind "Call", func, args, lineno].     *)
(***************************************************************************)
MaxCallStmts == 2      \* top-level call statements of a module
MaxCallsRemoval == 2   \* largest configured max_calls_removal

NameNode(id) == [kind |-> "Name", id |-> id]

ConstantNode(v) == [kind |-> "Constant", value |-> v]

AttributeNode(obj, attr) == [kind |-> "Attribute", value |-> NameNode(obj), attr |-> attr]

CallNode(func, args, lineno) ==
    [kind |-> "Call", func |-> func, args |-> args, lineno |-> lineno]

CalledFunctions == {NameNode("f"), AttributeNode("m", "g")}

\* f(), f(x), m.g(), m.g(x) on line n
FlatCalls(n) ==
    {CallNode(fn, args, n) : fn \in CalledFunctions, args \in {<<>>, <<NameNode("x")>>}}

\* the calls above and the calls with one of them as only argument
NestedCalls(n) ==
    FlatCalls(n) \cup {CallNode(fn, <<c>>, n) : fn \in CalledFunctions, c \in FlatCalls(n)}

\* the lines that may hold a call with a call as argument
NestedCallLines == 1..2

\* the call expressions of line n
CallsOnLine(n) == IF n \in NestedCallLines THEN NestedCalls(n) ELSE FlatCalls(n)

\* the module bodies: one call expression per line
CallModules ==
    UNION { {body \in [1..n -> UNION {CallsOnLine(i) : i \in 1..n}] :
                \A i \in 1..n : body[i] \in CallsOnLine(i)} : n \in 1..MaxCallStmts }

RECURSIVE CountCalls(_)
CountCalls(n) ==
    IF n.kind # "Call" THEN 0
    ELSE 1 + (IF n.args = <<>> THEN 0 ELSE CountCalls(n.args[1]))

RECURSIVE ToSource(_)
\* the source text of an expression
ToSource(n) ==
    IF n.kind = "Name" THEN <<n.id>>
    ELSE IF n.kind = "Constant" THEN <<n.value>>
    ELSE IF n.kind = "Attribute" THEN ToSource(n.value) \o <<".", n.attr>>
    ELSE ToSource(n.func) \o <<"(">>
         \o (IF n.args = <<>> THEN <<>> ELSE ToSource(n.args[1]))
         \o <<")">>

RECURSIVE ModuleSource(_)
\* the source text of a module: its statements, one per line
ModuleSource(body) ==
    IF body = <<>> THEN <<>>
    ELSE ToSource(Head(body)) \o <<"\n">> \o ModuleSource(Tail(body))

CallConfigs ==
    [replacement_strategy : {"first_arg", "literal", "none"},
     max_calls_removal : 1..MaxCallsRemoval,
     target_modules : {{}, {"m"}}]

\* FunctionCallRemover.can_transform(node)
call_can_transform(n, cfg) ==
    IF n.kind # "Call" THEN FALSE
    ELSE IF cfg.replacement_strategy = "first_arg" /\ n.args = <<>> THEN FALSE
    ELSE IF cfg.target_modules = {} THEN TRUE
    ELSE IF n.func.kind = "Attribute" /\ n.func.value.kind = "Name"
         THEN n.func.value.id \in cfg.target_modules
    ELSE FALSE

\* remove_function_call(node)
remove_function_call(n, cfg) ==
    IF cfg.replacement_strategy = "first_arg" /\ n.args # <<>> THEN n.args[1]
    ELSE IF cfg.replacement_strategy = "literal" THEN ConstantNode("0")
    ELSE IF cfg.replacement_strategy = "none" THEN ConstantNode("None")
    ELSE n

\* analyze_call_impact(node)["function_name"]
ImpactFunctionName(n) ==
    IF n.func.kind = "Name" THEN <<n.func.id>>
    ELSE IF n.func.value.kind = "Name" THEN <<n.func.value.id, ".", n.func.attr>>
    ELSE <<"?", ".", n.func.attr>>

\* a transformer that never stops replacing
LimitReached_Never(made, max_replacements) == FALSE

\* the test that stops replacing once max_replacements is reached
LimitReached(made, max_replacements) == made >= max_replacements

RECURSIVE VisitNode(_, _, _)
\* CallTransformer.visit(node) with the transformer's counters and the
\* outcomes of the coming should_transform() draws in st; returns [node, st]
VisitNode(n, cfg, st) ==
    IF n.kind # "Call" THEN [node |-> n, st |-> st]
    ELSE
    LET \* generic_visit(node): the arguments are visited in order
        Generic(st1) ==
            IF n.args = <<>> THEN [node |-> n, st |-> st1]
            ELSE LET r == VisitNode(n.args[1], cfg, st1)
                 IN  [node |-> [n EXCEPT !.args = <<r.node>>], st |-> r.st]
    IN  IF LimitReached(st.replacements_made, cfg.max_calls_removal) THEN Generic(st)
        ELSE IF ~call_can_transform(n, cfg) THEN Generic(st)
        ELSE IF ~Head(st.draws) THEN Generic([st EXCEPT !.draws = Tail(@)])
        ELSE [node |-> remove_function_call(n, cfg),
              st |-> [replacements_made |-> st.replacements_made + 1,
                      replaced_nodes |-> Append(st.replaced_nodes,
                            [original |-> n,
                             replacement |-> remove_function_call(n, cfg),
                             function_name |-> ImpactFunctionName(n)]),
                      draws |-> Tail(st.draws)]]

RECURSIVE VisitBody(_, _, _)
VisitBody(body, cfg, st) ==
    IF body = <<>> THEN [body |-> <<>>, st |-> st]
    ELSE LET r == VisitNode(Head(body), cfg, st)
             rest == VisitBody(Tail(body), cfg, r.st)
         IN  [body |-> <<r.node>> \o rest.body, st |-> rest.st]

\* FunctionCallRemover.transform(ast_tree): [tree, metadata]
call_transform(body, cfg, outcomes) ==
    LET r == VisitBody(body, cfg,
                       [replacements_made |-> 0, replaced_nodes |-> <<>>, draws |-> outcomes])
    IN  IF r.st.replaced_nodes = <<>>
        THEN [tree |-> body,
              metadata |-> [success |-> FALSE, reason |-> "No suitable function calls found"]]
        ELSE [tree |-> r.body,
              metadata |->
                [success |-> TRUE,
                 replacements_made |-> r.st.replacements_made,
                 replaced_calls |->
                    [i \in 1..Len(r.st.replaced_nodes) |->
                        [function_name |-> r.st.replaced_nodes[i].function_name,
                         line_number |-> r.st.replaced_nodes[i].original.lineno,
                         replacement_type |-> r.st.replaced_nodes[i].replacement.kind]],
                 type |-> "function_call_removal"]]

\* CodeTransformer.apply_transformation for a transformer whose transform
\* returned `transformed` and whose metadata names no function_to_transform
ApplyWithoutFunction(code, transformed) ==
    IF ~transformed.metadata.success
    THEN [code |-> code, metadata |-> transformed.metadata]
    ELSE Failure(code, "No function to transform")

\* FunctionCallRemover.apply_transformation(original_code, file_path)
call_apply_transformation(code, body, cfg, outcomes) ==
    ApplyWithoutFunction(code, call_transform(body, cfg, outcomes))

(***************************************************************************)
(* Call removal as a state machine: a module, a configuration and the      *)
(* outcomes of the should_transform() draws are given, then transform or   *)
(* apply_transformation is called.                                         *)
(***************************************************************************)
\* the outcomes of the draws: one for every call of the largest module
DrawSequences == [1..(MaxCallStmts + Cardinality(NestedCallLines)) -> BOOLEAN]

NoCallResult ==
    [code |-> <<>>, tree |-> <<>>, metadata |-> [success |-> FALSE, reason |-> "not called"]]

CallStart ==
    /\ kpc = "input"
    /\ call_tree \in CallModules
    /\ call_config \in CallConfigs
    /\ draws \in DrawSequences
    /\ call_result = NoCallResult

\* FunctionCallRemover.transform(ast.parse(code))
CallTransform ==
    /\ kpc = "input"
    /\ LET r == call_transform(call_tree, call_config, draws)
       IN  call_result' = [code |-> <<>>, tree |-> r.tree, metadata |-> r.metadata]
    /\ kpc' = "transformed"
    /\ UNCHANGED <<call_tree, call_config, draws>>
    /\ UNCHANGED <<bodyVars, collectorVars, processorVars, rerunVars, resolveVars, canVars, selectVars, importVars, batchVars, datasetVars>>

\* FunctionCallRemover.apply_transformation(code, file_path)
CallApplyTransformation ==
    /\ kpc = "input"
    /\ LET r == call_apply_transformation(ModuleSource(call_tree), call_tree,
                                          call_config, draws)
       IN  call_result' = [code |-> r.code, tree |-> <<>>, metadata |-> r.metadata]
    /\ kpc' = "applied"
    /\ UNCHANGED <<call_tree, call_config, draws>>
    /\ UNCHANGED <<bodyVars, collectorVars, processorVars, rerunVars, resolveVars, canVars, selectVars, importVars, batchVars, datasetVars>>

CallNext == CallTransform \/ CallApplyTransformation

(***************************************************************************)
(* CodeProcessor.process_file.  A file is its function (none or one), its  *)
(* call statements and whether it has import statements.                   *)
(***************************************************************************)
MaxTransformations == 2   \* largest configured max_transformations_per_file
DefaultMaxTransformations == 1   \* config.get('max_transformations_per_file', 1)
MaxAttempts == 4          \* loop iterations followed in one process_file call

TransformerClasses == {"FunctionBodyRemover", "FunctionCallRemover", "ImportOptimizer"}

\* the configurations of the transformers section
BodyRemoverConfig == [keep_docstring |-> TRUE, add_pass |-> TRUE, min_body_lines |-> 1]

CallRemoverConfig ==
    [replacement_strategy |-> "first_arg", max_calls_removal |-> 1, target_modules |-> {}]

ProcessorFunctions ==
    {d \in Descriptors : /\ d.pre = 0 /\ d.post = 0 /\ d.blank1 = 0 /\ d.blank2 = 0
                         /\ d.indent = 1 /\ d.doc = 0 /\ d.stmts = 1}

\* a file: at most one function, written `def` or `async def`, then at most
\* one call statement; has_imports tells whether it has import statements
ProcessorFiles ==
    {f \in [parses : BOOLEAN,
            function : {<<>>} \cup {<<d>> : d \in ProcessorFunctions},
            is_async : BOOLEAN,
            calls : {<<>>, <<CallNode(NameNode("f"), <<>>, 1)>>,
                     <<CallNode(NameNode("f"), <<NameNode("x")>>, 1)>>},
            has_imports : BOOLEAN] : f.is_async => f.function # <<>>}

\* the text of the file
FileCode(f) ==
    (IF f.is_async THEN <<"a", "s", "y", "n", "c", " ">> ELSE <<>>)
    \o (IF f.function = <<>> THEN <<>> ELSE GenCode(f.function[1]))
    \o ModuleSource(f.calls)

\* the node ast.parse makes of the file's function
FunctionNode(f) ==
    [GenNode(f.function[1]) EXCEPT
        !.kind = IF f.is_async THEN "AsyncFunctionDef" ELSE "FunctionDef"]

\* the definitions of the file, whatever their kind
DefinitionsOf(f) == IF f.function = <<>> THEN {} ELSE {FunctionNode(f)}

\* find_functions(tree): FunctionVisitor has visit_FunctionDef only, so an
\* AsyncFunctionDef is passed over by generic_visit
find_functions(f) == {n \in DefinitionsOf(f) : n.kind = "FunctionDef"}

RECURSIVE CallsIn(_)
\* the Call nodes of an expression, as FunctionCallVisitor collects them
CallsIn(n) ==
    IF n.kind # "Call" THEN {}
    ELSE {n} \cup (IF n.args = <<>> THEN {} ELSE CallsIn(n.args[1]))

find_function_calls(body) == UNION {CallsIn(body[i]) : i \in 1..Len(body)}

\* can_apply of select_transformation for a transformer of class t
CanApply(t, f) ==
    CASE t = "FunctionBodyRemover" ->
             \E n \in find_functions(f) : can_transform(n, BodyRemoverConfig)
      [] t = "FunctionCallRemover" ->
             \E c \in find_function_calls(f.calls) : call_can_transform(c, CallRemoverConfig)
      [] t = "ImportOptimizer" -> f.has_imports

\* select_transformation(ast_tree): the transformers the shuffled search can
\* return; none when the set is empty
select_transformation(f, enabled) == {t \in enabled : CanApply(t, f)}

\* the metadata["success"] values transformer.apply_transformation can return
ApplyOutcomes(t, f) ==
    CASE t = "FunctionBodyRemover" ->
             {apply_transformation(FunctionNode(f), FileCode(f),
                                   BodyRemoverConfig).metadata.success}
      [] t = "FunctionCallRemover" ->
             {call_apply_transformation(FileCode(f), f.calls, CallRemoverConfig,
                                        d).metadata.success : d \in DrawSequences}
      [] t = "ImportOptimizer" ->
             {ApplyWithoutFunction(FileCode(f),
                  [tree |-> <<>>, metadata |-> [success |-> s]]).metadata.success :
                  s \in BOOLEAN}

\* the loop condition of process_file
LoopContinues(applied, max) == applied < max

ProcessorStart ==
    /\ ppc = "start"
    /\ file \in ProcessorFiles
    /\ transformers \in SUBSET TransformerClasses
    /\ max_transformations \in 1..MaxTransformations
    /\ transformations_applied = 0
    /\ examples = <<>>
    /\ attempts = 0

\* ast_parser.parse_file and the read of the file
ParseFile ==
    /\ ppc = "start"
    /\ ppc' = IF file.parses THEN "loop" ELSE "returned"
    /\ UNCHANGED <<file, transformers, max_transformations, transformations_applied,
                   examples, attempts>>
    /\ UNCHANGED <<bodyVars, collectorVars, callVars, rerunVars, resolveVars, canVars, selectVars, importVars, batchVars, datasetVars>>

\* one iteration in which select_transformation finds nothing: break
NoTransformation ==
    /\ ppc = "loop"
    /\ LoopContinues(transformations_applied, max_transformations)
    /\ select_transformation(file, transformers) = {}
    /\ ppc' = "returned"
    /\ UNCHANGED <<file, transformers, max_transformations, transformations_applied,
                   examples, attempts>>
    /\ UNCHANGED <<bodyVars, collectorVars, callVars, rerunVars, resolveVars, canVars, selectVars, importVars, batchVars, datasetVars>>

\* one iteration that selects and applies a transformation
Attempt ==
    /\ ppc = "loop"
    /\ LoopContinues(transformations_applied, max_transformations)
    /\ attempts < MaxAttempts
    /\ \E t \in select_transformation(file, transformers) :
         \E success \in ApplyOutcomes(t, file) :
            IF success
            THEN /\ examples' = Append(examples, [transformation |-> t])
                 /\ transformations_applied' = transformations_applied + 1
            ELSE UNCHANGED <<examples, transformations_applied>>
    /\ attempts' = attempts + 1
    /\ UNCHANGED <<ppc, file, transformers, max_transformations>>
    /\ UNCHANGED <<bodyVars, collectorVars, callVars, rerunVars, resolveVars, canVars, selectVars, importVars, batchVars, datasetVars>>

\* the loop condition fails: return examples
ReturnExamples ==
    /\ ppc = "loop"
    /\ ~LoopContinues(transformations_applied, max_transformations)
    /\ ppc' = "returned"
    /\ UNCHANGED <<file, transformers, max_transformations, transformations_applied,
                   examples, attempts>>
    /\ UNCHANGED <<bodyVars, collectorVars, callVars, rerunVars, resolveVars, canVars, selectVars, importVars, batchVars, datasetVars>>

ProcessorNext == ParseFile \/ NoTransformation \/ Attempt \/ ReturnExamples

(***************************************************************************)
(* CodeProcessor.process_directory                                         *)
(***************************************************************************)
MaxDirFiles == 2   \* files in the directory tree

\* the file contents met in the directory
DirectoryFiles ==
    {f \in ProcessorFiles :
        /\ ~f.is_async /\ ~f.has_imports
        /\ f.function # <<>> => f.function[1].header = "one"
        /\ ~f.parses => f.function = <<>> /\ f.calls = <<>>}

\* a directory entry: whether its name ends with '.py', and its content
DirectoryEntries == [is_py : BOOLEAN, content : DirectoryFiles]

Listings == UNION {[1..n -> DirectoryEntries] : n \in 0..MaxDirFiles}

\* the transformers of the file that some apply_transformation call applies
\* with success
Succeeding(f, ts) ==
    {t \in select_transformation(f, ts) : TRUE \in ApplyOutcomes(t, f)}

\* the lists process_file(file_path) can return: [] when the file does not
\* parse or no transformer is selected, else max successes of the loop
process_file(f, ts, max) ==
    IF ~f.parses THEN {<<>>}
    ELSE IF select_transformation(f, ts) = {} THEN {<<>>}
    ELSE {[i \in 1..max |-> [transformation |-> s[i]]] :
              s \in [1..max -> Succeeding(f, ts)]}

\* a local variable that no assignment has bound yet
Unbound == [bound |-> FALSE, val |-> <<>>]

Bound(v) == [bound |-> TRUE, val |-> v]

NothingSaved == <<"nothing saved">>

BatchStart ==
    /\ dpc = "walking"
    /\ listing \in Listings
    /\ walked = 0
    /\ dir_transformers \in SUBSET TransformerClasses
    /\ all_examples = <<>>
    /\ dir_examples = Unbound
    /\ saved = NothingSaved

\* one file of the walk whose name does not end with '.py': passed over
SkipFile ==
    /\ dpc = "walking"
    /\ walked < Len(listing)
    /\ ~listing[walked + 1].is_py
    /\ walked' = walked + 1
    /\ UNCHANGED <<dpc, listing, dir_transformers, all_examples, dir_examples, saved>>
    /\ UNCHANGED <<bodyVars, collectorVars, callVars, processorVars, rerunVars, resolveVars, canVars, selectVars, importVars, datasetVars>>

\* one '.py' file of the walk: examples = self.process_file(file_path), and
\* all_examples.extend(examples) when the list is not empty
WalkFile ==
    /\ dpc = "walking"
    /\ walked < Len(listing)
    /\ listing[walked + 1].is_py
    /\ \E r \in process_file(listing[walked + 1].content, dir_transformers, DefaultMaxTransformations) :
          /\ dir_examples' = Bound(r)
          /\ all_examples' = IF r # <<>> THEN all_examples \o r ELSE all_examples
    /\ walked' = walked + 1
    /\ UNCHANGED <<dpc, listing, dir_transformers, saved>>
    /\ UNCHANGED <<bodyVars, collectorVars, callVars, processorVars, rerunVars, resolveVars, canVars, selectVars, importVars, datasetVars>>

\* after the walk: `for example in examples` reads the local variable, which
\* raises UnboundLocalError when no '.py' file was met; then save_examples
PrintAndSave ==
    /\ dpc = "walking"
    /\ walked = Len(listing)
    /\ IF dir_examples.bound
       THEN /\ dpc' = "saved"
            /\ saved' = all_examples
       ELSE /\ dpc' = "raised"
            /\ saved' = saved
    /\ UNCHANGED <<listing, walked, dir_transformers, all_examples, dir_examples>>
    /\ UNCHANGED <<bodyVars, collectorVars, callVars, processorVars, rerunVars, resolveVars, canVars, selectVars, importVars, datasetVars>>

BatchNext == SkipFile \/ WalkFile \/ PrintAndSave

(***************************************************************************)
(* BenchmarkDataset and BenchmarkExample                                   *)
(* transformation_types is a function of the kinds: 0 stands for a key     *)
(* that the dict does not hold.                                            *)
(***************************************************************************)
MaxExamples == 2   \* examples a dataset holds
MaxLoads == 1      \* load_from_disk calls followed

OriginalTexts == {"s1", "s2"}

TransformedTexts == {"t1", "t2"}

TransformationTypes == {"function_body_removal", "function_call_removal"}

\* _generate_id(): the md5 of f"{original_code}_{type}"; two contents have
\* two digests, one content has one
_generate_id(original, type) == <<original, type>>

ExampleIds == {_generate_id(o, k) : o \in OriginalTexts, k \in TransformationTypes}

\* BenchmarkExample(original, transformed, metadata, file_path)
BenchmarkExample(original, transformed, type) ==
    [original_code |-> original, transformed_code |-> transformed,
     metadata |-> [type |-> type], id |-> _generate_id(original, type)]

GeneratedExamples ==
    {BenchmarkExample(o, t, k) :
         o \in OriginalTexts, t \in TransformedTexts, k \in TransformationTypes}

\* example.to_dict()
to_dict(e) ==
    [id |-> e.id, original_code |-> e.original_code,
     transformed_code |-> e.transformed_code, metadata |-> e.metadata,
     transformation_type |-> e.metadata.type]

\* BenchmarkExample.from_dict(data): a new example, then the stored id
from_dict(data) ==
    [BenchmarkExample(data.original_code, data.transformed_code, data.metadata.type)
        EXCEPT !.id = data.id]

\* BenchmarkDataset(name)
NewDataset ==
    [examples |-> <<>>,
     metadata |-> [examples_count |-> 0,
                   transformation_types |-> [k \in TransformationTypes |-> 0]]]

\* dataset.add_example(example)
add_example(ds, e) ==
    [examples |-> Append(ds.examples, e),
     metadata |-> [examples_count |-> Len(ds.examples) + 1,
                   transformation_types |->
                       [ds.metadata.transformation_types EXCEPT ![e.metadata.type] = @ + 1]]]

NoFile == [missing |-> TRUE]

EmptyDirectory == [examples |-> [i \in ExampleIds |-> NoFile], metadata |-> NoFile]

RECURSIVE WriteExamples(_, _)
\* the loop of save_to_disk: every example is written to examples/<id>.json
WriteExamples(files, exs) ==
    IF exs = <<>> THEN files
    ELSE WriteExamples([files EXCEPT ![Head(exs).id] = to_dict(Head(exs))], Tail(exs))

\* the directory after dataset.save_to_disk(output_dir)
save_to_disk(ds, dir) ==
    [examples |-> WriteExamples(dir.examples, ds.examples),
     metadata |-> [ds.metadata EXCEPT !.examples_count = Len(ds.examples)]]

\* examples_dir.glob("*.json"): the files present, in any order
GlobOrders(dir) ==
    LET present == {i \in ExampleIds : dir.examples[i] # NoFile}
    IN  {[n \in 1..Cardinality(present) |-> dir.examples[s[n]]] :
            s \in {t \in [1..Cardinality(present) -> present] :
                       \A a, b \in 1..Cardinality(present) : a # b => t[a] # t[b]}}

RECURSIVE AddExamples(_, _)
\* the loop of load_from_disk: dataset.add_example(example_data)
AddExamples(ds, dicts) ==
    IF dicts = <<>> THEN ds
    ELSE AddExamples(add_example(ds, from_dict(Head(dicts))), Tail(dicts))

\* BenchmarkDataset.load_from_disk(input_dir) with the files met in the order
\* found: the stored metadata become the dataset's, then every file is added
load_from_disk(dir, found) ==
    AddExamples([examples |-> <<>>, metadata |-> dir.metadata], found)

DatasetStart ==
    /\ tpc = "new"
    /\ dataset = NewDataset
    /\ disk = EmptyDirectory
    /\ last_saved = <<>>
    /\ into_empty = FALSE
    /\ loads = 0

AddExample ==
    /\ tpc # "off"
    /\ Len(dataset.examples) < MaxExamples
    /\ \E e \in GeneratedExamples : dataset' = add_example(dataset, e)
    /\ tpc' = "added"
    /\ UNCHANGED <<disk, last_saved, into_empty, loads>>
    /\ UNCHANGED <<bodyVars, collectorVars, callVars, processorVars, rerunVars, resolveVars, canVars, selectVars, importVars, batchVars>>

SaveToDisk ==
    /\ tpc # "off"
    /\ disk' = save_to_disk(dataset, disk)
    /\ dataset' = [dataset EXCEPT !.metadata.examples_count = Len(dataset.examples)]
    /\ last_saved' = dataset.examples
    /\ into_empty' = (disk = EmptyDirectory)
    /\ tpc' = "saved"
    /\ UNCHANGED loads
    /\ UNCHANGED <<bodyVars, collectorVars, callVars, processorVars, rerunVars, resolveVars, canVars, selectVars, importVars, batchVars>>

\* load_from_disk; FileNotFoundError when metadata.json is missing
LoadFromDisk ==
    /\ tpc # "off"
    /\ loads < MaxLoads
    /\ loads' = loads + 1
    /\ IF disk.metadata = NoFile
       THEN /\ tpc' = "not found"
            /\ UNCHANGED dataset
       ELSE /\ tpc' = "loaded"
            /\ \E found \in GlobOrders(disk) : dataset' = load_from_disk(disk, found)
    /\ UNCHANGED <<disk, last_saved, into_empty>>
    /\ UNCHANGED <<bodyVars, collectorVars, callVars, processorVars, rerunVars, resolveVars, canVars, selectVars, importVars, batchVars>>

DatasetNext == AddExample \/ SaveToDisk \/ LoadFromDisk

(***************************************************************************)
(* ImportOptimizer                                                         *)
(* A dotted name is the sequence of its segments: a.c is <<"a", "c">>;     *)
(* None is <<>>.  Top-level statements: [kind "Import", names],            *)
(* [kind "ImportFrom", module, names, level] and [kind "Expr"] for any     *)
(* other statement; an alias is [name, asname].  Locations are left out.   *)
(***************************************************************************)
MaxImportStmts == 2    \* top-level statements of a module
MaxUsedNames == 2      \* names in a used-name set

Alias(name, asname) == [name |-> name, asname |-> asname]

ImportNode(names) == [kind |-> "Import", names |-> names]

ImportFromNode(module, names, level) ==
    [kind |-> "ImportFrom", module |-> module, names |-> names, level |-> level]

ExprNode == [kind |-> "Expr"]

\* import a / import b / import a as p / import a.c / import a, b / import a as p, a
ImportNameLists ==
    {<<Alias(<<"a">>, <<>>)>>, <<Alias(<<"b">>, <<>>)>>, <<Alias(<<"a">>, <<"p">>)>>,
     <<Alias(<<"a", "c">>, <<>>)>>,
     <<Alias(<<"a">>, <<>>), Alias(<<"b">>, <<>>)>>,
     <<Alias(<<"a">>, <<"p">>), Alias(<<"a">>, <<>>)>>}

\* ... import y / z / y as p / y as q / y, z / y as p, y as q
FromNameLists ==
    {<<Alias(<<"y">>, <<>>)>>, <<Alias(<<"z">>, <<>>)>>, <<Alias(<<"y">>, <<"p">>)>>,
     <<Alias(<<"y">>, <<"q">>)>>,
     <<Alias(<<"y">>, <<>>), Alias(<<"z">>, <<>>)>>,
     <<Alias(<<"y">>, <<"p">>), Alias(<<"y">>, <<"q">>)>>}

\* from x import ..., from .x import y / z, from . import y
FromImportNodes ==
    {ImportFromNode(<<"x">>, ns, 0) : ns \in FromNameLists}
        \cup {ImportFromNode(<<"x">>, <<Alias(<<n>>, <<>>)>>, 1) : n \in {"y", "z"}}
        \cup {ImportFromNode(<<>>, <<Alias(<<"y">>, <<>>)>>, 1)}

TopLevelStatements ==
    {ImportNode(ns) : ns \in ImportNameLists} \cup FromImportNodes \cup {ExprNode}

ImportModules == UNION {[1..n -> TopLevelStatements] : n \in 1..MaxImportStmts}

\* the names _find_used_names can report: Name loads and module.attr pairs
UsedNamePool ==
    {<<"a">>, <<"b">>, <<"p">>, <<"q">>, <<"y">>, <<"z">>, <<"a", "c">>, <<"a", "d">>}

GivenUsedNames == {s \in SUBSET UsedNamePool : Cardinality(s) <= MaxUsedNames}

\* name.asname if name.asname else name.name
actual_name(alias) == IF alias.asname # <<>> THEN alias.asname ELSE alias.name

\* used_name.startswith(actual_name + ".")
StartsWithDotted(used_name, prefix) ==
    Len(used_name) > Len(prefix) /\ SubSeq(used_name, 1, Len(prefix)) = prefix

\* a test that looks the bound name up and never checks attribute access
is_used_DirectOnly(alias, uns) == actual_name(alias) \in uns

\* is_used for one alias of an `import` statement
is_used(alias, uns) ==
    \/ actual_name(alias) \in uns
    \/ \E used_name \in uns : StartsWithDotted(used_name, actual_name(alias))

\* str(module_name): a dotted name as f"{...}" renders it
Rendered(module_name) == IF module_name = <<>> THEN <<"None">> ELSE module_name

RECURSIVE NeededImportNames(_, _)
\* needed_names of an `import` statement
NeededImportNames(names, uns) ==
    IF names = <<>> THEN <<>>
    ELSE (IF is_used(Head(names), uns) THEN <<Head(names)>> ELSE <<>>)
         \o NeededImportNames(Tail(names), uns)

RECURSIVE RemovedImportNames(_, _)
\* what an `import` statement appends to removed_imports
RemovedImportNames(names, uns) ==
    IF names = <<>> THEN <<>>
    ELSE (IF is_used(Head(names), uns) THEN <<>> ELSE <<Head(names).name>>)
         \o RemovedImportNames(Tail(names), uns)

RECURSIVE NeededFromNames(_, _)
\* needed_names of a from-import
NeededFromNames(names, uns) ==
    IF names = <<>> THEN <<>>
    ELSE (IF actual_name(Head(names)) \in uns THEN <<Head(names)>> ELSE <<>>)
         \o NeededFromNames(Tail(names), uns)

RECURSIVE RemovedFromNames(_, _, _)
\* what a from-import appends to removed_imports: f"{module_name}.{name.name}"
RemovedFromNames(module_name, names, uns) ==
    IF names = <<>> THEN <<>>
    ELSE (IF actual_name(Head(names)) \in uns THEN <<>>
          ELSE <<Rendered(module_name) \o Head(names).name>>)
         \o RemovedFromNames(module_name, Tail(names), uns)

RECURSIVE _remove_unused_imports(_, _)
\* _remove_unused_imports(ast_tree, used_names): [tree, removed]
_remove_unused_imports(body, uns) ==
    IF body = <<>> THEN [tree |-> <<>>, removed |-> <<>>]
    ELSE
    LET stmt == Head(body)
        rest == _remove_unused_imports(Tail(body), uns)
    IN  IF stmt.kind = "Import"
        THEN LET needed_names == NeededImportNames(stmt.names, uns)
             IN  [tree |-> (IF needed_names # <<>> THEN <<ImportNode(needed_names)>>
                            ELSE <<>>) \o rest.tree,
                  removed |-> RemovedImportNames(stmt.names, uns) \o rest.removed]
        ELSE IF stmt.kind = "ImportFrom"
        THEN LET needed_names == NeededFromNames(stmt.names, uns)
             IN  [tree |-> (IF needed_names # <<>>
                            THEN <<ImportFromNode(stmt.module, needed_names, stmt.level)>>
                            ELSE <<>>) \o rest.tree,
                  removed |-> RemovedFromNames(stmt.module, stmt.names, uns)
                              \o rest.removed]
        ELSE [tree |-> <<stmt>> \o rest.tree, removed |-> rest.removed]

\* import_dict after one more alias of an `import` statement
AddImportName(import_dict, alias) ==
    IF alias.name \in Keys(import_dict)
    THEN Put(import_dict, alias.name, Append(Lookup(import_dict, alias.name), alias))
    ELSE Put(import_dict, alias.name, <<alias>>)

RECURSIVE AddImportNames(_, _)
AddImportNames(import_dict, names) ==
    IF names = <<>> THEN import_dict
    ELSE AddImportNames(AddImportName(import_dict, Head(names)), Tail(names))

\* a list that takes every alias, also one whose name it already holds
AddFromName_KeepAll(names, alias) == Append(names, alias)

\* from_import_dict[key] after one more alias: skipped when an alias of the
\* same name is already there
AddFromName(names, alias) ==
    IF \E i \in 1..Len(names) : names[i].name = alias.name THEN names
    ELSE Append(names, alias)

RECURSIVE AddFromNames(_, _)
AddFromNames(names, more) ==
    IF more = <<>> THEN names
    ELSE AddFromNames(AddFromName(names, Head(more)), Tail(more))

\* the key of from_import_dict
FromKey(stmt) == <<stmt.module, stmt.level>>

RECURSIVE GroupImports(_, _)
\* the first loop: [import_dict, from_import_dict] after the statements of body
GroupImports(body, dicts) ==
    IF body = <<>> THEN dicts
    ELSE
    LET stmt == Head(body)
    IN  IF stmt.kind = "Import"
        THEN GroupImports(Tail(body),
                 [dicts EXCEPT !.import_dict = AddImportNames(@, stmt.names)])
        ELSE IF stmt.kind = "ImportFrom"
        THEN LET key == FromKey(stmt)
                 before == IF key \in Keys(dicts.from_import_dict)
                           THEN Lookup(dicts.from_import_dict, key) ELSE <<>>
             IN  GroupImports(Tail(body),
                     [dicts EXCEPT !.from_import_dict =
                         Put(@, key, AddFromNames(before, stmt.names))])
        ELSE GroupImports(Tail(body), dicts)

RECURSIVE JoinNames(_)
\* ", ".join(name.name for name in names)
JoinNames(names) ==
    IF names = <<>> THEN <<>>
    ELSE Head(names).name \o (IF Len(names) > 1 THEN <<", ">> ELSE <<>>)
         \o JoinNames(Tail(names))

RECURSIVE NewImports(_)
\* the statements and the metadata lines made from import_dict
NewImports(import_dict) ==
    IF import_dict = <<>> THEN [nodes |-> <<>>, combined |-> <<>>]
    ELSE LET e == Head(import_dict)
             rest == NewImports(Tail(import_dict))
         IN  [nodes |-> <<ImportNode(e.val)>> \o rest.nodes,
              combined |-> (IF Len(e.val) > 1 THEN << <<"import ">> \o e.key >> ELSE <<>>)
                           \o rest.combined]

RECURSIVE NewFromImports(_)
\* the statements and the metadata lines made from from_import_dict
NewFromImports(from_import_dict) ==
    IF from_import_dict = <<>> THEN [nodes |-> <<>>, combined |-> <<>>]
    ELSE LET e == Head(from_import_dict)
             rest == NewFromImports(Tail(from_import_dict))
         IN  [nodes |-> <<ImportFromNode(e.key[1], e.val, e.key[2])>> \o rest.nodes,
              combined |->
                  (IF Len(e.val) > 1
                   THEN << <<"from ">> \o Rendered(e.key[1]) \o <<" import ">>
                           \o JoinNames(e.val) >>
                   ELSE <<>>) \o rest.combined]

RECURSIVE OtherStatements(_)
\* the statements that are no top-level import, in their order
OtherStatements(body) ==
    IF body = <<>> THEN <<>>
    ELSE (IF Head(body).kind \in {"Import", "ImportFrom"} THEN <<>> ELSE <<Head(body)>>)
         \o OtherStatements(Tail(body))

\* _combine_duplicate_imports(ast_tree): [tree, combined]
_combine_duplicate_imports(body) ==
    LET dicts == GroupImports(body, [import_dict |-> <<>>, from_import_dict |-> <<>>])
        plain == NewImports(dicts.import_dict)
        froms == NewFromImports(dicts.from_import_dict)
    IN  [tree |-> plain.nodes \o froms.nodes \o OtherStatements(body),
         combined |-> plain.combined \o froms.combined]

NoImportResult == [tree |-> <<>>, removed |-> <<>>, combined |-> <<>>]

ImportStart ==
    /\ ipc = "input"
    /\ import_tree \in ImportModules
    /\ names_used \in GivenUsedNames
    /\ import_result = NoImportResult

\* ImportOptimizer._remove_unused_imports(ast_tree, used_names)
RemoveUnusedImports ==
    /\ ipc = "input"
    /\ LET r == _remove_unused_imports(import_tree, names_used)
       IN  import_result' = [tree |-> r.tree, removed |-> r.removed, combined |-> <<>>]
    /\ ipc' = "removed"
    /\ UNCHANGED <<import_tree, names_used>>
    /\ UNCHANGED <<bodyVars, collectorVars, callVars, processorVars, rerunVars, resolveVars, canVars, selectVars, batchVars, datasetVars>>

\* ImportOptimizer._combine_duplicate_imports(ast_tree)
CombineDuplicateImports ==
    /\ ipc = "input"
    /\ LET r == _combine_duplicate_imports(import_tree)
       IN  import_result' = [tree |-> r.tree, removed |-> <<>>, combined |-> r.combined]
    /\ ipc' = "combined"
    /\ UNCHANGED <<import_tree, names_used>>
    /\ UNCHANGED <<bodyVars, collectorVars, callVars, processorVars, rerunVars, resolveVars, canVars, selectVars, batchVars, datasetVars>>

ImportNext == RemoveUnusedImports \/ CombineDuplicateImports

\* the configuration of the import optimizer: the defaults of __init__
ImportOptimizerConfig == [remove_unused |-> TRUE, combine_imports |-> TRUE]

HasOtherStatement(body) == \E i \in 1..Len(body) : body[i].kind = "Expr"

\* ImportPreserver._find_used_names(tree): the names the statements that are
\* no import load; uns is what the Expr statements of the module load
_find_used_names(body, uns) == IF HasOtherStatement(body) THEN uns ELSE {}

\* metadata["success"] after the two steps: a non-empty list of either step
ReportsSuccess(removed, combined) == removed # <<>> \/ combined # <<>>

\* ImportOptimizer.transform(ast_tree): [tree, metadata]
import_transform(body, uns, cfg) ==
    LET used == _find_used_names(body, uns)
        step1 == IF cfg.remove_unused THEN _remove_unused_imports(body, used)
                 ELSE [tree |-> body, removed |-> <<>>]
        step2 == IF cfg.combine_imports THEN _combine_duplicate_imports(step1.tree)
                 ELSE [tree |-> step1.tree, combined |-> <<>>]
    IN  [tree |-> step2.tree,
         metadata |-> [success |-> ReportsSuccess(step1.removed, step2.combined),
                       removed_imports |-> step1.removed,
                       combined_imports |-> step2.combined,
                       type |-> "import_optimization"]]

\* a module and the names its other statements load
TransformStart ==
    /\ ImportStart
    /\ ~HasOtherStatement(import_tree) => names_used = {}

\* ImportOptimizer.transform(ast_tree)
ImportTransform ==
    /\ ipc = "input"
    /\ LET r == import_transform(import_tree, names_used, ImportOptimizerConfig)
       IN  import_result' = [tree |-> r.tree, removed |-> r.metadata.removed_imports,
                             combined |-> r.metadata.combined_imports,
                             success |-> r.metadata.success]
    /\ ipc' = "transformed"
    /\ UNCHANGED <<import_tree, names_used>>
    /\ UNCHANGED <<bodyVars, collectorVars, callVars, processorVars, rerunVars, resolveVars, canVars, selectVars, batchVars, datasetVars>>

TransformNext == ImportTransform

(***************************************************************************)
(* CodeProcessor.__init__ and select_transformation on their own           *)
(***************************************************************************)
\* the names TransformerRegistry maps to classes
RegisteredName(t) ==
    CASE t = "FunctionBodyRemover" -> "function_body"
      [] t = "FunctionCallRemover" -> "function_call"
      [] t = "ImportOptimizer" -> "import_optimizer"

TransformerNames == {RegisteredName(t) : t \in TransformerClasses}

\* config['transformers']: a name is absent, or its section has no 'enabled'
\* key, or 'enabled' is True or False
TransformersConfigs == [TransformerNames -> {"absent", "no key", "True", "False"}]

\* tf_config.get('enabled', True)
Enabled(section) == section \in {"no key", "True"}

\* self.transformers after __init__
BuildTransformers(cfg) ==
    {t \in TransformerClasses :
        cfg[RegisteredName(t)] # "absent" /\ Enabled(cfg[RegisteredName(t)])}

SelectStart ==
    /\ spc = "config"
    /\ tree \in {f \in ProcessorFiles : f.parses}
    /\ transformers_config \in TransformersConfigs
    /\ built = {}
    /\ selected = "None"

\* CodeProcessor.__init__
Construct ==
    /\ spc = "config"
    /\ built' = BuildTransformers(transformers_config)
    /\ spc' = "built"
    /\ UNCHANGED <<tree, transformers_config, selected>>
    /\ UNCHANGED <<bodyVars, collectorVars, callVars, processorVars, rerunVars, resolveVars, canVars, importVars, batchVars, datasetVars>>

\* select_transformation(ast_tree): the first applicable transformer of the
\* shuffled list, None when there is none
SelectTransformation ==
    /\ spc = "built"
    /\ LET applicable == select_transformation(tree, built)
       IN  IF applicable = {} THEN selected' = "None" ELSE selected' \in applicable
    /\ spc' = "selected"
    /\ UNCHANGED <<tree, transformers_config, built>>
    /\ UNCHANGED <<bodyVars, collectorVars, callVars, processorVars, rerunVars, resolveVars, canVars, importVars, batchVars, datasetVars>>

SelectNext == Construct \/ SelectTransformation

(***************************************************************************)
(* Specifications                                                          *)
(***************************************************************************)
BodyIdle ==
    /\ bpc = "off"
    /\ original_code = <<>>
    /\ node = [kind |-> "FunctionDef", name |-> <<"f">>, lineno |-> 1, end_lineno |-> 1,
               body |-> <<>>]
    /\ config = [keep_docstring |-> TRUE, add_pass |-> TRUE, min_body_lines |-> 1]
    /\ result = NoResult

CollectorIdle ==
    /\ project = EmptyProject
    /\ cpc = "off"
    /\ stack = <<>>
    /\ processed_files = {}
    /\ file_cache = {}
    /\ ast_cache = {}
    /\ code_elements = <<>>
    /\ imports = <<>>
    /\ reads = NoReads
    /\ context = NoContext

CallIdle ==
    /\ kpc = "off"
    /\ call_tree = <<>>
    /\ call_config = CallRemoverConfig
    /\ draws = <<>>
    /\ call_result = NoCallResult

ProcessorIdle ==
    /\ ppc = "off"
    /\ file = [parses |-> FALSE, function |-> <<>>, is_async |-> FALSE, calls |-> <<>>,
               has_imports |-> FALSE]
    /\ transformers = {}
    /\ max_transformations = 1
    /\ transformations_applied = 0
    /\ examples = <<>>
    /\ attempts = 0

RerunIdle == RerunStart

DatasetIdle ==
    /\ tpc = "off"
    /\ dataset = NewDataset
    /\ disk = EmptyDirectory
    /\ last_saved = <<>>
    /\ into_empty = FALSE
    /\ loads = 0

BatchIdle ==
    /\ dpc = "off"
    /\ listing = <<>>
    /\ walked = 0
    /\ dir_transformers = {}
    /\ all_examples = <<>>
    /\ dir_examples = Unbound
    /\ saved = NothingSaved

ImportIdle ==
    /\ ipc = "off"
    /\ import_tree = <<>>
    /\ names_used = {}
    /\ import_result = NoImportResult

SelectIdle ==
    /\ spc = "off"
    /\ tree = [parses |-> FALSE, function |-> <<>>, is_async |-> FALSE, calls |-> <<>>,
               has_imports |-> FALSE]
    /\ transformers_config = [n \in TransformerNames |-> "absent"]
    /\ built = {}
    /\ selected = "None"

CanIdle ==
    /\ qpc = "off"
    /\ candidate = [kind |-> "Module", name |-> <<>>, lineno |-> 1, end_lineno |-> 1,
                    body |-> <<>>]
    /\ can_config = [keep_docstring |-> TRUE, add_pass |-> TRUE, min_body_lines |-> 1]
    /\ can_result = FALSE

ResolveIdle ==
    /\ rpc = "off"
    /\ existing = {}
    /\ imported_name = <<>>
    /\ importer = NoPath
    /\ resolved = NoPath
    /\ extracted = <<>>

BodyInit == BodyStart /\ CollectorIdle /\ CallIdle /\ ProcessorIdle /\ RerunIdle /\ ResolveIdle /\ CanIdle /\ SelectIdle /\ ImportIdle /\ BatchIdle /\ DatasetIdle

SpecBody == BodyInit /\ [][BodyNext]_vars

CollectorInit == CollectorStart /\ BodyIdle /\ CallIdle /\ ProcessorIdle /\ RerunIdle /\ ResolveIdle /\ CanIdle /\ SelectIdle /\ ImportIdle /\ BatchIdle /\ DatasetIdle

SpecCollector == CollectorInit /\ [][CollectorNext]_vars

CallInit == CallStart /\ BodyIdle /\ CollectorIdle /\ ProcessorIdle /\ RerunIdle /\ ResolveIdle /\ CanIdle /\ SelectIdle /\ ImportIdle /\ BatchIdle /\ DatasetIdle

SpecCall == CallInit /\ [][CallNext]_vars

ProcessorInit == ProcessorStart /\ BodyIdle /\ CollectorIdle /\ CallIdle /\ RerunIdle /\ ResolveIdle /\ CanIdle /\ SelectIdle /\ ImportIdle /\ BatchIdle /\ DatasetIdle

SpecProcessor == ProcessorInit /\ [][ProcessorNext]_vars

RerunInit == CollectorInit

SpecRerun == RerunInit /\ [][RerunNext]_vars

ResolveInit ==
    ResolveStart /\ BodyIdle /\ CollectorIdle /\ CallIdle /\ ProcessorIdle /\ RerunIdle /\ CanIdle /\ SelectIdle /\ ImportIdle /\ BatchIdle /\ DatasetIdle

SpecResolve == ResolveInit /\ [][ResolveNext]_vars

CanInit ==
    CanStart /\ BodyIdle /\ CollectorIdle /\ CallIdle /\ ProcessorIdle /\ RerunIdle
             /\ ResolveIdle /\ SelectIdle /\ ImportIdle /\ BatchIdle /\ DatasetIdle

SpecCan == CanInit /\ [][CanNext]_vars

SelectInit ==
    SelectStart /\ BodyIdle /\ CollectorIdle /\ CallIdle /\ ProcessorIdle /\ RerunIdle
                /\ ResolveIdle /\ CanIdle /\ ImportIdle /\ BatchIdle /\ DatasetIdle

SpecSelect == SelectInit /\ [][SelectNext]_vars

ImportInit ==
    ImportStart /\ BodyIdle /\ CollectorIdle /\ CallIdle /\ ProcessorIdle /\ RerunIdle
                /\ ResolveIdle /\ CanIdle /\ SelectIdle /\ BatchIdle /\ DatasetIdle

SpecImport == ImportInit /\ [][ImportNext]_vars

TransformInit ==
    TransformStart /\ BodyIdle /\ CollectorIdle /\ CallIdle /\ ProcessorIdle /\ RerunIdle
                   /\ ResolveIdle /\ CanIdle /\ SelectIdle /\ BatchIdle /\ DatasetIdle

SpecTransform == TransformInit /\ [][TransformNext]_vars

BatchInit ==
    BatchStart /\ BodyIdle /\ CollectorIdle /\ CallIdle /\ ProcessorIdle /\ RerunIdle
               /\ ResolveIdle /\ CanIdle /\ SelectIdle /\ ImportIdle /\ DatasetIdle

SpecBatch == BatchInit /\ [][BatchNext]_vars

DatasetInit ==
    DatasetStart /\ BodyIdle /\ CollectorIdle /\ CallIdle /\ ProcessorIdle /\ RerunIdle
                 /\ ResolveIdle /\ CanIdle /\ SelectIdle /\ ImportIdle /\ BatchIdle

SpecDataset == DatasetInit /\ [][DatasetNext]_vars

(***************************************************************************)
(* Claims about the context collector                                      *)
(***************************************************************************)
\* the file an import statement of file p resolves to (NoPath when external)
TargetOf(stmt, p) == _resolve_import(FileSystem, project_root, stmt.module, p)

\* the import statements of the visited files, with the file each resolves to
ResolvedImports ==
    UNION { { [file |-> p, stmt |-> project.imports[p][i],
               target |-> TargetOf(project.imports[p][i], p)] :
                 i \in 1..Len(project.imports[p]) } :
            p \in ast_cache \cap SourceFiles }

\* the filtered context of the module that file p belongs to
FilteredFor(p) ==
    Lookup(_filter_used_elements(code_elements, imports), _get_module_name(p))

\* the filtered context of p's module holds the element `name` defined in p
Retains(p, name) ==
    \E i \in 1..Len(FilteredFor(p)) :
        /\ FilteredFor(p)[i].key = name
        /\ FilteredFor(p)[i].val.source = p

RECURSIVE PendingImports(_)
\* the recursive calls that the active _process_file calls have still to make
PendingImports(st) ==
    IF st = <<>> THEN 0
    ELSE (Len(Head(st).imports) + 1 - Head(st).next) + PendingImports(Tail(st))

\* a natural number that bounds the steps a running collect_context has left
Variant(st, pf) ==
    (MaxImports + 1) * Cardinality(FileSystem \ pf) + PendingImports(st) + Len(st)

C6_WholeModuleKeepsAll ==
    cpc = "collected" =>
        \A r \in ResolvedImports :
            (r.stmt.type = "import" /\ r.target # NoPath) =>
                \A k \in 1..Len(TopLevelNames(r.target)) :
                    Retains(r.target, TopLevelNames(r.target)[k])

\* C7: after collect_context, every from-import in a visited file that resolves
\* to a project-local module M makes the filtered context of M hold every
\* explicitly named element that M defines.
C7_FromImportKeepsNamed ==
    cpc = "collected" =>
        \A r \in ResolvedImports :
            (r.stmt.type = "from" /\ r.target # NoPath) =>
                \A k \in 1..Len(r.stmt.names) :
                    (\E j \in 1..Len(TopLevelNames(r.target)) :
                        TopLevelNames(r.target)[j] = r.stmt.names[k])
                    => Retains(r.target, r.stmt.names[k])

\* C8: format_context with add_current_file=False renders no element of the
\* entry file.
C8_EntryFileNotRendered ==
    (cpc = "collected" /\ context.called /\ ~context.add_current_file) =>
        \A i \in 1..Len(context.groups) :
            \A j \in 1..Len(context.groups[i].elements) :
                context.groups[i].elements[j].source # project.entry


(***************************************************************************)
(* CodeProcessor.process_file and call removal: the claims                 *)
(***************************************************************************)
\* C9: process_file makes at most max_transformations_per_file
\* transformation attempts before it returns, also when the selected
\* transformation fails on every attempt.
C9_AtMostMaxAttempts ==
    ppc \in {"loop", "returned"} => attempts <= max_transformations

\* what FunctionCallRemover.transform makes of the module given to
\* apply_transformation
CallTransformed == call_transform(call_tree, call_config, draws)

\* C10: apply_transformation of the call remover fails only if no call was
\* replaced: when at least one call qualified and passed its draw the result
\* is success with the regenerated transformed text and the per-replacement
\* metadata.
C10_FailsOnlyIfNoCallReplaced ==
    (kpc = "applied" /\ CallTransformed.metadata.success) =>
        /\ call_result.metadata.success
        /\ call_result.code = ModuleSource(CallTransformed.tree)
        /\ call_result.metadata = CallTransformed.metadata


(***************************************************************************)
(* Claims about what collect_context returns and about repeated runs       *)
(***************************************************************************)
\* the map collect_context returns: self.code_elements
collect_context_result == code_elements

\* C11: the map returned by collect_context is the post-filter context: for a
\* module recorded as a from-import it holds only the elements that
\* _filter_used_elements keeps.
C11_ReturnsFilteredContext ==
    cpc = "collected" =>
        \A i \in 1..Len(collect_context_result) :
            (/\ collect_context_result[i].key \in Keys(imports)
             /\ Lookup(imports, collect_context_result[i].key).import_type = "from")
            => collect_context_result[i].val =
                   Lookup(_filter_used_elements(code_elements, imports),
                          collect_context_result[i].key)


\* C12: whatever runs came before on the same instance, the state after
\* collect_context(p) and the format_context output are those of a fresh
\* collector after a single collect_context(p): a later run with the entry of
\* the first run ends in the state the first run ended in.
C12_NothingSurvivesARun ==
    (/\ cpc = "collected"
     /\ earlier_runs # <<>>
     /\ first_run # NoSnapshot
     /\ project.entry = first_run.entry)
    => Snapshot = first_run

\* a third run, with the entry of the first, after a run that started at b.py
\* and met import statements there
C12_Witness ==
    /\ cpc = "collected"
    /\ earlier_runs = <<FileA, FileB>>
    /\ project.entry = FileA
    /\ project.imports[FileB] # <<>>
    /\ imports # <<>>
    /\ Snapshot = first_run


RECURSIVE ExplicitlyNamed(_, _)
\* the elements whose names are in the explicit name list, in their order
ExplicitlyNamed(elements, names) ==
    IF elements = <<>> THEN <<>>
    ELSE (IF \E i \in 1..Len(names) : names[i] = Head(elements).key
          THEN <<Head(elements)>> ELSE <<>>)
         \o ExplicitlyNamed(Tail(elements), names)

C14_DenylistedNeverResolved ==
    (/\ rpc \in {"resolved", "extracted"}
     /\ imported_name[1] \in std_libs \cup external_libs)
    => /\ resolved = NoPath
       /\ extracted = <<>>

\* `import json` in root/a.py while root/json.py exists: nothing is extracted
C14_Witness ==
    /\ rpc = "extracted"
    /\ imported_name = <<"json">>
    /\ importer = FileA
    /\ PyFile(project_root, "json") \in existing
    /\ extracted = <<>>


\* the directories from the importing file's directory upwards, nearest first
Ancestors(file_path) ==
    [i \in 1..Len(Parent(file_path).parts) |->
        Dir(SubSeq(file_path.parts, 1, Len(file_path.parts) - i))]

\* the ancestors that are package roots, and those named like the import's
\* leading segment, by their position in Ancestors
PackageRootsAbove == {i \in DOMAIN Ancestors(importer) :
                         PyFile(Ancestors(importer)[i], "__init__") \in existing}

NamedRootsAbove == {i \in PackageRootsAbove :
                       LastPart(Ancestors(importer)[i]) = imported_name[1]}

\* the path of lowest rank among the ranked candidates that exist
FirstByRank(ranked) ==
    LET found == {c \in ranked : c.path \in existing}
    IN  IF found = {} THEN NoPath
        ELSE (CHOOSE c \in found : \A o \in found : c.rank <= o.rank).path

NameFront == SubSeq(imported_name, 1, Len(imported_name) - 1)

NameLast == imported_name[Len(imported_name)]

\* strategy 1: the same-directory sibling file
SiblingCandidates ==
    IF Len(imported_name) = 1
    THEN {[rank |-> 100, path |-> PyFile(Parent(importer), imported_name[1])]}
    ELSE {}

\* strategy 2: the remainder rebuilt under the package roots in `roots`
UnderNamedRoots(roots) ==
    {[rank |-> 200 + 10 * i,
      path |-> WithSuffixPy(Descend(Ancestors(importer)[i], Tail(imported_name)))] :
        i \in roots}
    \cup {[rank |-> 201 + 10 * i,
           path |-> PyFile(Descend(Ancestors(importer)[i], Tail(imported_name)),
                           "__init__")] :
             i \in {j \in roots : Len(imported_name) > 1}}

\* strategy 3: the dotted path under the project root, as file and as package
UnderProjectRoot ==
    {[rank |-> 400, path |-> PyFile(Descend(project_root, NameFront), NameLast)],
     [rank |-> 500, path |-> PyFile(Descend(project_root, imported_name), "__init__")]}

\* the dotted path below the importing file's directory
BelowImporter ==
    {[rank |-> 300, path |-> PyFile(Descend(Parent(importer), NameFront), NameLast)]}

\* the dotted path next to every ancestor package root
NextToPackageRoots ==
    {[rank |-> 600 + 10 * i,
      path |-> WithSuffixPy(Descend(Parent(Ancestors(importer)[i]), imported_name))] :
        i \in PackageRootsAbove}
    \cup {[rank |-> 601 + 10 * i,
           path |-> PyFile(Descend(Parent(Ancestors(importer)[i]), imported_name),
                           "__init__")] :
             i \in PackageRootsAbove}

NearestNamedRoot ==
    IF NamedRootsAbove = {} THEN {}
    ELSE {CHOOSE i \in NamedRootsAbove : \A j \in NamedRootsAbove : i <= j}

Denylisted == imported_name[1] \in std_libs \cup external_libs

\* C15 as stated: _resolve_import returns the first existing candidate in the
\* order sibling file, nearest ancestor package root named like the leading
\* segment, dotted path under the project root as file or package, and no
\* path when none of these exists.
C15_ResolvesInStatedOrder ==
    (rpc = "resolved" /\ ~Denylisted) =>
        resolved = FirstByRank(SiblingCandidates \cup UnderNamedRoots(NearestNamedRoot)
                               \cup UnderProjectRoot)

\* C15 as amended: the order is sibling file (single-segment names), every
\* ancestor package root named like the leading segment (nearest first, the
\* remainder as file, then as package for a dotted name), the dotted path
\* below the importing file's directory, the dotted path under the project
\* root as file and as package, then the dotted path next to every ancestor
\* package root (nearest first, file then package); no path when none exists.
C15_ResolvesInCodeOrder ==
    (rpc = "resolved" /\ ~Denylisted) =>
        resolved = FirstByRank(SiblingCandidates \cup UnderNamedRoots(NamedRootsAbove)
                               \cup BelowImporter \cup UnderProjectRoot
                               \cup NextToPackageRoots)

\* `import b` in root/pkg/m.py with both root/pkg/b.py and root/b.py: the
\* sibling wins over the project-root file
C15_Witness ==
    /\ rpc = "resolved"
    /\ imported_name = <<"b">>
    /\ importer = PyFile(Dir(<<"root", "pkg">>), "m")
    /\ PyFile(Dir(<<"root", "pkg">>), "b") \in existing
    /\ PyFile(Dir(<<"root">>), "b") \in existing
    /\ resolved = PyFile(Dir(<<"root", "pkg">>), "b")


(***************************************************************************)
(* Claims about FunctionBodyRemover.can_transform                          *)
(***************************************************************************)
NamePrefix(name, n) == SubSeq(name, 1, n)

NameSuffix(name, n) == SubSeq(name, Len(name) - n + 1, Len(name))

StartsAndEndsWithUnderscores(name) ==
    /\ Len(name) >= 2
    /\ NamePrefix(name, 2) = <<"_", "_">>
    /\ NameSuffix(name, 2) = <<"_", "_">>

IsFunctionOrMethod(n) == n.kind \in {"FunctionDef", "AsyncFunctionDef"}

\* C16: can_transform(node) is true exactly when the node is a function or
\* method definition, its name does not both start and end with '__', and it
\* has at least min_body_lines body statements; it is false for any other node.
C16_CanTransformExactly ==
    qpc = "answered" =>
        (can_result <=>
            /\ IsFunctionOrMethod(candidate)
            /\ ~StartsAndEndsWithUnderscores(candidate.name)
            /\ Len(candidate.body) >= can_config.min_body_lines)

\* a class with enough statements and an ordinary name has been refused
C16_Witness ==
    /\ qpc = "answered"
    /\ candidate.kind = "ClassDef"
    /\ candidate.name = <<"f">>
    /\ Len(candidate.body) >= can_config.min_body_lines
    /\ ~can_result


(***************************************************************************)
(* Claims about select_transformation                                      *)
(***************************************************************************)
\* the nodes of the parsed file that some transformer's can_transform may accept
CandidateNodesOf(f) ==
    DefinitionsOf(f) \cup find_function_calls(f.calls)
        \cup (IF f.has_imports THEN {[kind |-> "Import"]} ELSE {})

\* the can_transform of the transformer of class t, asked about node n
Qualifies(t, n) ==
    CASE t = "FunctionBodyRemover" -> can_transform(n, BodyRemoverConfig)
      [] t = "FunctionCallRemover" ->
             n.kind = "Call" /\ call_can_transform(n, CallRemoverConfig)
      [] t = "ImportOptimizer" -> n.kind \in {"Import", "ImportFrom"}

HasQualifyingCandidate(t, f) == \E n \in CandidateNodesOf(f) : Qualifies(t, n)

EnabledInConfig(t) == transformers_config[RegisteredName(t)] \in {"no key", "True"}

\* C17: select_transformation returns none exactly when no enabled transformer
\* has a qualifying candidate node in the tree; otherwise it returns an
\* enabled transformer with at least one qualifying candidate, and never a
\* transformer configured with enabled=false.
C17_NoneIffNoQualifyingCandidate ==
    spc = "selected" =>
        /\ (selected = "None") <=>
               ~\E t \in TransformerClasses :
                   EnabledInConfig(t) /\ HasQualifyingCandidate(t, tree)
        /\ selected # "None" =>
               /\ EnabledInConfig(selected)
               /\ HasQualifyingCandidate(selected, tree)
               /\ transformers_config[RegisteredName(selected)] # "False"


(***************************************************************************)
(* Claims about the number of replacements of FunctionCallRemover          *)
(***************************************************************************)
\* the statements transform has changed
ChangedStatements == {i \in 1..Len(call_tree) : call_result.tree[i] # call_tree[i]}

\* the per-replacement records of the metadata; none when transform failed
ReplacementRecords ==
    IF call_result.metadata.success THEN call_result.metadata.replaced_calls ELSE <<>>

\* C18: one transform run replaces at most max_calls_removal calls, also when
\* calls are nested in the arguments of other calls, and the reported
\* replacements_made is the number of per-replacement metadata records.
C18_AtMostMaxCallsRemoval ==
    kpc = "transformed" =>
        /\ Cardinality(ChangedStatements) <= call_config.max_calls_removal
        /\ Len(ReplacementRecords) <= call_config.max_calls_removal
        /\ call_result.metadata.success =>
              call_result.metadata.replacements_made = Len(ReplacementRecords)

\* the limit of one replacement was reached on the first line and the second
\* line keeps a qualifying nested call although every draw said "replace"
C18_Witness ==
    /\ kpc = "transformed"
    /\ call_config.max_calls_removal = 1
    /\ Len(call_tree) = 2
    /\ \A i \in DOMAIN draws : draws[i]
    /\ call_result.metadata.success
    /\ call_result.metadata.replacements_made = 1
    /\ ChangedStatements = {1}
    /\ CountCalls(call_tree[2]) = 2
    /\ call_can_transform(call_tree[2], call_config)
    /\ call_can_transform(call_tree[2].args[1], call_config)

(***************************************************************************)
(* Claims about ImportOptimizer                                            *)
(***************************************************************************)
\* the identifier an alias binds, as the optimizer reads it
BoundName(alias) == IF alias.asname = <<>> THEN alias.name ELSE alias.asname

\* some used name is an attribute access through the bound name
HasAttributeAccess(bound, uns) ==
    \E u \in uns : Len(u) > Len(bound) /\ \A i \in 1..Len(bound) : u[i] = bound[i]

IsImportStatement(stmt) == stmt.kind \in {"Import", "ImportFrom"}

\* the positions of the names of statement i that are used
KeptNames(i) ==
    LET stmt == import_tree[i]
    IN  {j \in 1..Len(stmt.names) :
            \/ BoundName(stmt.names[j]) \in names_used
            \/ stmt.kind = "Import"
               /\ HasAttributeAccess(BoundName(stmt.names[j]), names_used)}

\* the statements that stay: every other statement, and the imports that
\* keep a name
Survivors ==
    {i \in 1..Len(import_tree) :
        IsImportStatement(import_tree[i]) => KeptNames(i) # {}}

\* the r-th smallest number of a set of numbers
NthOf(S, r) == CHOOSE j \in S : Cardinality({m \in S : m <= j}) = r

\* <<statement, name>> positions in the order of the text
Before(p, q) == p[1] < q[1] \/ (p[1] = q[1] /\ p[2] <= q[2])

NthPair(P, r) == CHOOSE p \in P : Cardinality({q \in P : Before(q, p)}) = r

\* the names that are dropped, as <<statement, name>> positions
DroppedNames ==
    UNION {{<<i, j>> : j \in (1..Len(import_tree[i].names)) \ KeptNames(i)} :
              i \in {m \in 1..Len(import_tree) : IsImportStatement(import_tree[m])}}

\* a report entry names the alias dropped from the statement: an imported
\* module by its name, a from-imported name after the name of its module
NamesDropped(entry, stmt, alias) ==
    IF stmt.kind = "Import" THEN entry = alias.name
    ELSE /\ Len(entry) > Len(alias.name)
         /\ SubSeq(entry, Len(entry) - Len(alias.name) + 1, Len(entry)) = alias.name
         /\ stmt.module # <<>> =>
                SubSeq(entry, 1, Len(entry) - Len(alias.name)) = stmt.module

FromKeysGiven ==
    {<<import_tree[i].module, import_tree[i].level>> :
        i \in {m \in 1..Len(import_tree) : import_tree[m].kind = "ImportFrom"}}

\* the <<statement, name>> positions of the names imported under a pair
NamesUnder(key) ==
    UNION {{<<i, j>> : j \in 1..Len(import_tree[i].names)} :
              i \in {m \in 1..Len(import_tree) :
                        /\ import_tree[m].kind = "ImportFrom"
                        /\ <<import_tree[m].module, import_tree[m].level>> = key}}

AliasAt(p) == import_tree[p[1]].names[p[2]]

\* the first occurrence of each distinct name imported under a pair
FirstSeen(key) ==
    {p \in NamesUnder(key) :
        ~\E q \in NamesUnder(key) : q # p /\ Before(q, p) /\ AliasAt(q).name = AliasAt(p).name}

\* the from-imports of the result
FromImportsAfter ==
    {r \in 1..Len(import_result.tree) : import_result.tree[r].kind = "ImportFrom"}

\* C20: after _combine_duplicate_imports the top-level from-imports of each
\* (module, level) pair are replaced by exactly one from-import statement,
\* which lists each distinct imported name once, in first-seen order, with
\* the alias of its first occurrence.
C20_OneFromImportPerModule ==
    ipc = "combined" =>
        /\ Cardinality(FromImportsAfter) = Cardinality(FromKeysGiven)
        /\ \A key \in FromKeysGiven :
              \E r \in FromImportsAfter :
                 LET after == import_result.tree[r]
                 IN  /\ after.module = key[1]
                     /\ after.level = key[2]
                     /\ Len(after.names) = Cardinality(FirstSeen(key))
                     /\ \A k \in 1..Len(after.names) :
                            after.names[k] = AliasAt(NthPair(FirstSeen(key), k))

\* `from x import y as p` then `from x import y as q` has become the single
\* statement `from x import y as p`
C20_Witness ==
    /\ ipc = "combined"
    /\ import_tree = <<ImportFromNode(<<"x">>, <<Alias(<<"y">>, <<"p">>)>>, 0),
                       ImportFromNode(<<"x">>, <<Alias(<<"y">>, <<"q">>)>>, 0)>>
    /\ import_result.tree = <<ImportFromNode(<<"x">>, <<Alias(<<"y">>, <<"p">>)>>, 0)>>


\* the whole-module imports of the result
ImportsAfter == {r \in 1..Len(import_result.tree) : import_result.tree[r].kind = "Import"}

\* the module names of the whole-module imports given
ModulesGiven ==
    UNION {{import_tree[i].names[j].name : j \in 1..Len(import_tree[i].names)} :
              i \in {m \in 1..Len(import_tree) : import_tree[m].kind = "Import"}}

\* C21: after _combine_duplicate_imports the whole-module imports are grouped
\* into one statement per module name, and the name list of a statement holds
\* no name twice: two `import a` statements give no statement listing a twice.
C21_OneImportPerModuleNoRepeats ==
    ipc = "combined" =>
        /\ Cardinality(ImportsAfter) = Cardinality(ModulesGiven)
        /\ \A r \in ImportsAfter :
              LET names == import_result.tree[r].names
              IN  \A j, k \in 1..Len(names) : names[j].name = names[k].name => j = k

\* two surviving import statements of one group: whole-module imports that
\* share a kept module name, or from-imports of one (module, level) pair
SameGroup(i, k) ==
    LET a == import_tree[i]
        b == import_tree[k]
    IN  /\ a.kind = b.kind
        /\ IF a.kind = "ImportFrom" THEN a.module = b.module /\ a.level = b.level
           ELSE \E j \in KeptNames(i), l \in KeptNames(k) : a.names[j].name = b.names[l].name

StatementsMerged ==
    \E i, k \in Survivors :
        /\ i # k
        /\ IsImportStatement(import_tree[i]) /\ IsImportStatement(import_tree[k])
        /\ SameGroup(i, k)

\* C22: transform reports success exactly when one of the two steps changed
\* something: a name was removed, or at least two import statements were
\* merged; it reports no success for a single `from x import y, z` whose two
\* names are both used.
C22_SuccessIffChanged ==
    ipc = "transformed" =>
        (import_result.success <=> (DroppedNames # {} \/ StatementsMerged))

(***************************************************************************)
(* More claims about body removal                                          *)
(***************************************************************************)
\* the whole function is written on its header line
FunctionOnOneLine == node.end_lineno = node.lineno

\* the replacement starts on a line of the function
PlaceholderInsideFunction == md.transformed_body_start_line <= node.end_lineno

\* C23: remove_function_body fails whenever the function has no body lines
\* after its header line, wherever the function is in the file; it never
\* reports success with an empty removed body or with a placeholder inserted
\* outside the function.
C23_FailsWithoutBodyLines ==
    /\ (BodyCalled /\ FunctionOnOneLine) => ~md.success
    /\ BodySucceeded => (md.removed_body # <<>> /\ PlaceholderInsideFunction)


RECURSIVE CountIn(_, _, _)
\* the number of c in the lines from..to (1-indexed) of the original text
CountIn(c, from, to) ==
    IF to < from THEN 0
    ELSE Cardinality({i \in 1..Len(OrigLines[to]) : OrigLines[to][i] = c})
         + CountIn(c, from, to - 1)

\* the parenthesis depth at the end of line k, counted from the def line
ParenDepthAfter(k) == CountIn("(", node.lineno, k) - CountIn(")", node.lineno, k)

\* the depth over parentheses and square brackets at the end of line k
BracketDepthAfter(k) ==
    ParenDepthAfter(k) + CountIn("[", node.lineno, k) - CountIn("]", node.lineno, k)

\* the lines at or after the def line with a colon and parenthesis depth 0
ColonLinesAtDepth0 ==
    {k \in node.lineno..Len(OrigLines) :
        Contains(OrigLines[k], ":") /\ ParenDepthAfter(k) = 0}

\* the line that holds the colon ending the def statement's header: the first
\* line on which every bracket opened since `def` is closed
TerminatingColonLine ==
    CHOOSE k \in node.lineno..Len(OrigLines) :
        /\ BracketDepthAfter(k) = 0
        /\ \A j \in node.lineno..(k - 1) : BracketDepthAfter(j) # 0

ParameterListSpansLines == ParenDepthAfter(node.lineno) > 0

\* the line (1-indexed) remove_function_body took as the header's end
LocatedHeaderEnd == md.original_body_start_line - 1

\* C25: the header end is the first line at or after the def line that has a
\* colon while the parenthesis depth is 0 at the end of the line; for a
\* parameter list that spans several lines the located header end is never a
\* line before the one holding the def statement's terminating colon.
C25_HeaderEndAtTerminatingColon ==
    BodySucceeded =>
        /\ LocatedHeaderEnd \in ColonLinesAtDepth0
        /\ \A k \in ColonLinesAtDepth0 : LocatedHeaderEnd <= k
        /\ ParameterListSpansLines => LocatedHeaderEnd >= TerminatingColonLine

\* the transformed text with its lines [from, to) (1-indexed, end exclusive)
\* replaced by text
WithLinesReplaced(from, to, text) ==
    Join(Slice(NewLines, 0, from - 1)) \o text \o Join(Slice(NewLines, to - 1, Len(NewLines)))

NameBoundBy(stmt, alias) ==
    IF alias.asname # <<>> THEN alias.asname
    ELSE IF stmt.kind = "Import" THEN <<alias.name[1]>>
    ELSE alias.name

\* the identifiers the import statements of a module body bind
NamesBoundIn(body) ==
    UNION {{NameBoundBy(body[i], body[i].names[j]) : j \in 1..Len(body[i].names)} :
              i \in {m \in 1..Len(body) : IsImportStatement(body[m])}}

\* C27: after transform every name that an import statement of the original
\* module bound and that the module's code references is still bound by an
\* import statement of the result; merging `from x import y as p` and
\* `from x import y as q` does not drop a used binding q.
C27_UsedBindingsSurvive ==
    ipc = "transformed" =>
        \A b \in NamesBoundIn(import_tree) :
            b \in names_used => b \in NamesBoundIn(import_result.tree)


\* some group of code_elements holds exactly the top-level elements of file p
HasOwnElementGroup(p) ==
    \E i \in 1..Len(code_elements) :
        LET group == code_elements[i].val
        IN  /\ \A j \in 1..Len(group) : group[j].val.source = p
            /\ {group[j].val.name : j \in 1..Len(group)}
                   = {TopLevelNames(p)[k] : k \in 1..Len(TopLevelNames(p))}

\* some record of self.imports is the import of file p
HasOwnImportRecord(p) ==
    \E i \in 1..Len(imports) : imports[i].val.module_path = p

\* two distinct files that were read and extracted and have the same module name
SameStemVisited(p, q) ==
    /\ p \in ast_cache /\ q \in ast_cache /\ p # q
    /\ _get_module_name(p) = _get_module_name(q)

\* C28: during one collect_context run two distinct visited files with the
\* same file stem keep separate element groups and separate import records:
\* neither's elements nor import record are merged with or overwritten by the
\* other's.
C28_SameStemFilesKeptApart ==
    \A p, q \in FileSystem :
        SameStemVisited(p, q) =>
            /\ HasOwnElementGroup(p) /\ HasOwnElementGroup(q)
            /\ (p # project.entry => HasOwnImportRecord(p))
            /\ (q # project.entry => HasOwnImportRecord(q))


(***************************************************************************)
(* Claims about batch processing                                           *)
(***************************************************************************)
\* C24: no exception propagates out of process_directory: whatever each file
\* yields and whatever the directory holds, also no source file at all, the
\* walk goes on and ends by saving the collected examples.
C24_NoExceptionLeavesBatch == dpc # "raised"


(***************************************************************************)
(* Claims about the dataset                                                *)
(***************************************************************************)
\* C29: after add_example calls, save_to_disk into an empty directory and
\* load_from_disk, the loaded dataset has as many examples as the saved one,
\* also when two examples have the same original text and transformation kind.
C29_LoadKeepsExampleCount ==
    tpc = "loaded" /\ into_empty => Len(dataset.examples) = Len(last_saved)

RECURSIVE SumOver(_, _)
\* the sum of the counts f[k] for k in ks
SumOver(f, ks) ==
    IF ks = {} THEN 0
    ELSE LET k == CHOOSE x \in ks : TRUE IN f[k] + SumOver(f, ks \ {k})

\* C30: after any sequence of add_example, save_to_disk and load_from_disk,
\* examples_count is the number of held examples and the per-kind counts of
\* transformation_types sum to the number of held examples.
C30_MetadataCountsExamples ==
    tpc # "off" =>
        /\ dataset.metadata.examples_count = Len(dataset.examples)
        /\ SumOver(dataset.metadata.transformation_types, TransformationTypes)
               = Len(dataset.examples)

====
